---- MODULE Spec2Model ----
(***************************************************************************)
(* Model of the heuristic weekly symptom dashboard of the backend          *)
(* (backend/app/services/user_dashboard.py) together with the handlers     *)
(* that store the events it reads.  Python floats are modelled as exact    *)
(* rationals <<numerator, denominator>> in lowest terms; None is <<0, 0>>. *)
(***************************************************************************)
EXTENDS Integers, Sequences, FiniteSets, TLC

VARIABLES today, checkins, chats, assessments, built, day_locals, day_scores, rows,
          dashboards, phq9_scores, phq9_result, users, inflight, login_events,
          response, posts, admin_emails, python_sum, comments, objects

\* The event tables and the locals of one dashboard request.
dashVars == <<today, checkins, chats, assessments, built, day_locals, day_scores, rows>>

\* The state of the other services: the dashboards served to several users, the
\* questionnaire scorer, the accounts and the board; and the way the
\* interpreter the service runs on adds up a list of floats.
otherVars == <<dashboards, phq9_scores, phq9_result, users, inflight, login_events,
               response, posts, admin_emails, python_sum, comments, objects>>

vars == <<today, checkins, chats, assessments, built, day_locals, day_scores, rows,
          dashboards, phq9_scores, phq9_result, users, inflight, login_events,
          response, posts, admin_emails, python_sum, comments, objects>>

(***************************************************************************)
(* Bounds of the model.                                                    *)
(***************************************************************************)
MaxEvents == 3

MaxWeeks == 3

\* Calendar days on which requests arrive, counted from a Monday (day 0):
\* Monday and Wednesday of week 0 and Monday of week 1.
EventDates == {0, 2, 7}

(***************************************************************************)
(* Exact rational arithmetic standing for Python float arithmetic.         *)
(***************************************************************************)
None == <<0, 0>>

IsNone(x) == x[2] = 0

Abs(n) == IF n < 0 THEN -n ELSE n

RECURSIVE GCD(_, _)
GCD(a, b) == IF b = 0 THEN a ELSE GCD(b, a % b)

Norm(n, d) ==
    LET g == GCD(Abs(n), d)
    IN  <<n \div g, d \div g>>

R(n) == <<n, 1>>

Frac(n, d) == Norm(n, d)

RAdd(a, b) == Norm(a[1] * b[2] + b[1] * a[2], a[2] * b[2])

RSub(a, b) == Norm(a[1] * b[2] - b[1] * a[2], a[2] * b[2])

RMul(a, b) == Norm(a[1] * b[1], a[2] * b[2])

\* a / b for b # 0
RDiv(a, b) ==
    IF b[1] < 0 THEN Norm(-(a[1] * b[2]), a[2] * (-b[1]))
    ELSE Norm(a[1] * b[2], a[2] * b[1])

RLt(a, b) == a[1] * b[2] < b[1] * a[2]

RLe(a, b) == a[1] * b[2] <= b[1] * a[2]

RGe(a, b) == RLe(b, a)

RMin(a, b) == IF RLt(b, a) THEN b ELSE a

RMax(a, b) == IF RLt(a, b) THEN b ELSE a

RAbs(a) == <<Abs(a[1]), a[2]>>

RECURSIVE RSum(_)
RSum(s) == IF s = <<>> THEN R(0) ELSE RAdd(s[1], RSum(Tail(s)))

MapSeq(s, F(_)) == [i \in 1..Len(s) |-> F(s[i])]

RECURSIVE SortedSeq(_)
SortedSeq(S) ==
    IF S = {} THEN <<>>
    ELSE LET m == CHOOSE x \in S : \A y \in S : x <= y
         IN  <<m>> \o SortedSeq(S \ {m})

(***************************************************************************)
(* Pure helpers of user_dashboard.py.                                      *)
(***************************************************************************)
Mean(values) ==
    IF values = <<>> THEN None
    ELSE RDiv(RSum(values), R(Len(values)))

RECURSIVE WeightedFold(_, _, _)
WeightedFold(pairs, numer, denom) ==
    IF pairs = <<>> THEN <<numer, denom>>
    ELSE LET value == pairs[1][1]
             weight == pairs[1][2]
         IN  IF IsNone(value)
             THEN WeightedFold(Tail(pairs), numer, denom)
             ELSE WeightedFold(Tail(pairs), RAdd(numer, RMul(value, weight)),
                               RAdd(denom, weight))

\* Variant: a missing term counts as zero, its weight stays in the denominator.
WeightedScore_MissingAsZero(pairs) ==
    LET nd == WeightedFold(pairs, R(0), R(0))
    IN  RDiv(nd[1], RSum(MapSeq(pairs, LAMBDA pr : pr[2])))

WeightedScore(pairs) ==
    LET nd == WeightedFold(pairs, R(0), R(0))
    IN  IF nd[2] = R(0) THEN None ELSE RDiv(nd[1], nd[2])

\* Variant: the boundary values belong to the lower band.
SeverityBucket_BoundaryLow(score) ==
    IF RLe(score, R(25)) THEN "minimal"
    ELSE IF RLe(score, R(50)) THEN "mild"
    ELSE IF RLe(score, R(75)) THEN "moderate"
    ELSE "severe"

SeverityBucket(score) ==
    IF RLt(score, R(25)) THEN "minimal"
    ELSE IF RLt(score, R(50)) THEN "mild"
    ELSE IF RLt(score, R(75)) THEN "moderate"
    ELSE "severe"

SleepPenalty(sleep_hours) ==
    IF IsNone(sleep_hours) THEN None
    ELSE LET diff == RAbs(RSub(sleep_hours, Frac(15, 2)))
         IN  RMin(R(100), RMul(RDiv(diff, Frac(9, 2)), R(100)))

IMax(a, b) == IF a < b THEN b ELSE a

\* note: [has, challenge_completed_count, challenge_total_count]
ParseCheckinNote(raw_note) ==
    IF ~raw_note.has THEN <<0, 0>>
    ELSE <<IMax(0, raw_note.challenge_completed_count),
           IMax(0, raw_note.challenge_total_count)>>

(***************************************************************************)
(* build_user_weekly_dashboard: grouping of the fetched rows by day.       *)
(* A check-in row is [created_at, mood_score, sleep_hours, exercised,      *)
(* note]; a chat row is [created_at, extracted] with extracted =           *)
(* [distress_0_10, rumination_0_10, sleep_difficulty_0_10, distortion] and *)
(* distortion = [isdict, values]; an assessment row is [created_at,        *)
(* total_score].  created_at is the calendar day of the timestamp.         *)
(***************************************************************************)
OnDay(s, d) == SelectSeq(s, LAMBDA row : row.created_at = d)

HasValue(s) == SelectSeq(s, LAMBDA x : ~IsNone(x))

\* Variant: the ratio is taken as it is, without the cap at 1.
CompletionRate_Uncapped(row) ==
    LET ct == ParseCheckinNote(row.note)
        completed == ct[1]
        total == ct[2]
    IN  IF total > 0 THEN Frac(completed, total)
        ELSE IF row.exercised THEN R(1)
        ELSE R(0)

CompletionRate(row) ==
    LET ct == ParseCheckinNote(row.note)
        completed == ct[1]
        total == ct[2]
    IN  IF total > 0 THEN RMin(R(1), Frac(completed, total))
        ELSE IF row.exercised THEN R(1)
        ELSE R(0)

RECURSIVE ISum(_)
ISum(s) == IF s = <<>> THEN 0 ELSE s[1] + ISum(Tail(s))

\* Whether the chat loop appends anything for this row (and so creates its day).
ChatTouchesDay(row) ==
    \/ ~IsNone(row.extracted.distress_0_10)
    \/ ~IsNone(row.extracted.rumination_0_10)
    \/ ~IsNone(row.extracted.sleep_difficulty_0_10)
    \/ row.extracted.distortion.isdict

\* Variant: a chat alone does not open a day.
DayKeys_ChatsIgnored(cks, chs, asms) ==
    {cks[i].created_at : i \in 1..Len(cks)}
      \cup {asms[i].created_at : i \in 1..Len(asms)}

DayKeys(cks, chs, asms) ==
    {cks[i].created_at : i \in 1..Len(cks)}
      \cup {chs[i].created_at : i \in {j \in 1..Len(chs) : ChatTouchesDay(chs[j])}}
      \cup {asms[i].created_at : i \in 1..Len(asms)}

\* day_data[d]: the lists collected for day d, in the order of the fetched rows.
DayData(cks, chs, asms, d) ==
    LET c == OnDay(cks, d)
        h == OnDay(chs, d)
        a == OnDay(asms, d)
    IN  [ mood |-> MapSeq(c, LAMBDA row : R(row.mood_score)),
          sleep_hours |-> HasValue(MapSeq(c, LAMBDA row : row.sleep_hours)),
          challenge_completion_rate |-> MapSeq(c, CompletionRate),
          distress |-> HasValue(MapSeq(h, LAMBDA row : row.extracted.distress_0_10)),
          rumination |-> HasValue(MapSeq(h, LAMBDA row : row.extracted.rumination_0_10)),
          sleep_difficulty |->
              HasValue(MapSeq(h, LAMBDA row : row.extracted.sleep_difficulty_0_10)),
          distortion_total |->
              MapSeq(SelectSeq(h, LAMBDA row : row.extracted.distortion.isdict),
                     LAMBDA row : R(ISum(row.extracted.distortion.values))),
          phq_total |-> MapSeq(a, LAMBDA row : R(row.total_score)) ]

(***************************************************************************)
(* The per-day body of the scoring loop.  The record keeps the locals of   *)
(* one iteration: the carried questionnaire value, the three blends as     *)
(* _weighted_score returned them, the values after the 50.0 default, the   *)
(* day's completion rate and the clipped scores appended to day_scores.    *)
(***************************************************************************)
Scale10(x) == IF IsNone(x) THEN None ELSE RMul(x, R(10))

\* Variant: only the upper bound is enforced.
Clip_UpperOnly(x) == RMin(R(100), x)

Clip(x) == RMax(R(0), RMin(R(100), x))

\* Variant: a target without any defined term scores zero.
OrDefault_Zero(x) == IF ~IsNone(x) THEN x ELSE R(0)

OrDefault(x) == IF ~IsNone(x) THEN x ELSE R(50)

\* Variant: the first questionnaire is kept for ever.
CarryAfter_KeepFirst(dd, carry) ==
    LET phq == Mean(dd.phq_total)
    IN  IF ~IsNone(phq) /\ IsNone(carry) THEN RMul(RDiv(phq, R(27)), R(100)) ELSE carry

CarryAfter(dd, carry) ==
    LET phq == Mean(dd.phq_total)
    IN  IF ~IsNone(phq) THEN RMul(RDiv(phq, R(27)), R(100)) ELSE carry

\* Variant: any check-in earns the full deduction, whatever the rate.
Adjust_FullCredit(score, challenge_completion, factor) ==
    IF ~IsNone(challenge_completion) THEN RSub(score, R(factor)) ELSE score

Adjust(score, challenge_completion, factor) ==
    IF ~IsNone(challenge_completion)
    THEN RSub(score, RMul(challenge_completion, R(factor)))
    ELSE score

DepPairs(carry_phq_scaled, mood_inverse, rum_scaled, distortion_scaled) ==
    << <<carry_phq_scaled, Frac(45, 100)>>,
       <<mood_inverse, Frac(25, 100)>>,
       <<rum_scaled, Frac(20, 100)>>,
       <<distortion_scaled, Frac(10, 100)>> >>

AnxPairs(distress_scaled, rum_scaled, mood_inverse, distortion_scaled) ==
    << <<distress_scaled, Frac(45, 100)>>,
       <<rum_scaled, Frac(25, 100)>>,
       <<mood_inverse, Frac(20, 100)>>,
       <<distortion_scaled, Frac(10, 100)>> >>

InsPairs(sleep_diff_scaled, sleep_pen) ==
    << <<sleep_diff_scaled, Frac(60, 100)>>,
       <<sleep_pen, Frac(40, 100)>> >>

DayLocals(d, dd, carry_in) ==
    LET m == Mean(dd.mood)
        sleep_hours == Mean(dd.sleep_hours)
        distress == Mean(dd.distress)
        rumination == Mean(dd.rumination)
        sleep_diff == Mean(dd.sleep_difficulty)
        distortion_total == Mean(dd.distortion_total)
        challenge_completion == Mean(dd.challenge_completion_rate)
        carry_phq_scaled == CarryAfter(dd, carry_in)
        mood_inverse == IF IsNone(m) THEN None ELSE RMul(RSub(R(10), m), R(10))
        distress_scaled == Scale10(distress)
        rum_scaled == Scale10(rumination)
        sleep_diff_scaled == Scale10(sleep_diff)
        distortion_scaled ==
            IF IsNone(distortion_total) THEN None
            ELSE RMin(R(100), RMul(distortion_total, R(12)))
        sleep_pen == SleepPenalty(sleep_hours)
        dep_blend == WeightedScore(DepPairs(carry_phq_scaled, mood_inverse,
                                            rum_scaled, distortion_scaled))
        anx_blend == WeightedScore(AnxPairs(distress_scaled, rum_scaled,
                                            mood_inverse, distortion_scaled))
        ins_blend == WeightedScore(InsPairs(sleep_diff_scaled, sleep_pen))
        dep0 == OrDefault(dep_blend)
        anx0 == OrDefault(anx_blend)
        ins0 == OrDefault(ins_blend)
    IN  [ date |-> d,
          carry_phq_scaled |-> carry_phq_scaled,
          mood_inverse |-> mood_inverse,
          distress_scaled |-> distress_scaled,
          rum_scaled |-> rum_scaled,
          sleep_diff_scaled |-> sleep_diff_scaled,
          distortion_scaled |-> distortion_scaled,
          sleep_pen |-> sleep_pen,
          dep_blend |-> dep_blend, anx_blend |-> anx_blend, ins_blend |-> ins_blend,
          dep0 |-> dep0, anx0 |-> anx0, ins0 |-> ins0,
          challenge_completion |-> challenge_completion,
          dep |-> Clip(Adjust(dep0, challenge_completion, 12)),
          anx |-> Clip(Adjust(anx0, challenge_completion, 10)),
          ins |-> Clip(Adjust(ins0, challenge_completion, 6)) ]

\* The loop over sorted(day_data.keys()), threading carry_phq_scaled.
RECURSIVE DayLoop(_, _, _, _, _)
DayLoop(cks, chs, asms, days, carry) ==
    IF days = <<>> THEN <<>>
    ELSE LET loc == DayLocals(days[1], DayData(cks, chs, asms, days[1]), carry)
         IN  <<loc>> \o DayLoop(cks, chs, asms, Tail(days), loc.carry_phq_scaled)

\* Variant: the loop starts with the value of the last questionnaire fetched.
DayLocalsTrace_CarryFromLast(cks, chs, asms) ==
    DayLoop(cks, chs, asms, SortedSeq(DayKeys(cks, chs, asms)),
            IF asms = <<>> THEN None
            ELSE RMul(RDiv(R(asms[Len(asms)].total_score), R(27)), R(100)))

DayLocalsTrace(cks, chs, asms) ==
    DayLoop(cks, chs, asms, SortedSeq(DayKeys(cks, chs, asms)), None)

\* What the loop appends to day_scores.
DayScore(loc) == [date |-> loc.date, dep |-> loc.dep, anx |-> loc.anx, ins |-> loc.ins]

DayScores(cks, chs, asms) == MapSeq(DayLocalsTrace(cks, chs, asms), DayScore)


(***************************************************************************)
(* Weekly roll-up (the buckets keyed by the Monday of each day) and the    *)
(* alert pass.  week_start_date is kept as the day number of the Monday    *)
(* that str(week_start) prints.                                            *)
(***************************************************************************)
Weekday(d) == d % 7

\* Variant: weeks that run from Sunday to Saturday.
WeekStart_FromSunday(d) == d - ((d + 1) % 7)

WeekStart(d) == d - Weekday(d)

\* Python's `x or 50.0`: None and 0.0 are both falsy.
Or50(x) == IF IsNone(x) \/ x = R(0) THEN R(50) ELSE x

WeekItems(scores, week_start) ==
    SelectSeq(scores, LAMBDA row : WeekStart(row.date) = week_start)

\* Variant: active_days is the span from the first to the last day of the week
\* that has a score.
WeekRow_DaysSpanned(week_start, items) ==
    LET dep_week == Or50(Mean(MapSeq(items, LAMBDA x : x.dep)))
        anx_week == Or50(Mean(MapSeq(items, LAMBDA x : x.anx)))
        ins_week == Or50(Mean(MapSeq(items, LAMBDA x : x.ins)))
        composite == RDiv(RAdd(RAdd(dep_week, anx_week), ins_week), R(3))
    IN  [ week_start_date |-> week_start,
          dep_week_pred_0_100 |-> dep_week,
          anx_week_pred_0_100 |-> anx_week,
          ins_week_pred_0_100 |-> ins_week,
          symptom_composite_pred_0_100 |-> composite,
          active_days |-> items[Len(items)].date - items[1].date + 1 ]

WeekRow(week_start, items) ==
    LET dep_week == Or50(Mean(MapSeq(items, LAMBDA x : x.dep)))
        anx_week == Or50(Mean(MapSeq(items, LAMBDA x : x.anx)))
        ins_week == Or50(Mean(MapSeq(items, LAMBDA x : x.ins)))
        composite == RDiv(RAdd(RAdd(dep_week, anx_week), ins_week), R(3))
    IN  [ week_start_date |-> week_start,
          dep_week_pred_0_100 |-> dep_week,
          anx_week_pred_0_100 |-> anx_week,
          ins_week_pred_0_100 |-> ins_week,
          symptom_composite_pred_0_100 |-> composite,
          active_days |-> Len(items) ]

\* Variant: one record per day score instead of one per week.
WeeklyRollup_PerDay(scores) ==
    MapSeq(scores, LAMBDA x : WeekRow(WeekStart(x.date),
                                      WeekItems(scores, WeekStart(x.date))))

WeeklyRollup(scores) ==
    LET weeks == SortedSeq({WeekStart(scores[i].date) : i \in 1..Len(scores)})
    IN  MapSeq(weeks, LAMBDA w : WeekRow(w, WeekItems(scores, w)))

\* Variant: the first record gets a delta of zero instead of none.
Delta_ZeroFirst(prev, cur) == IF IsNone(prev) THEN R(0) ELSE RSub(cur, prev)

Delta(prev, cur) == IF IsNone(prev) THEN None ELSE RSub(cur, prev)

\* Variant: a rise of exactly 5 does not count.
Jump_Strict(delta) ==
    RLt(R(5), IF IsNone(delta) \/ delta = R(0) THEN R(0) ELSE delta)

\* Python's `(delta or 0) >= 5`.
Jump(delta) == RGe(IF IsNone(delta) \/ delta = R(0) THEN R(0) ELSE delta, R(5))

BoolInt(b) == IF b THEN 1 ELSE 0

\* Variant: the codes are joined newest first.
RECURSIVE Join_NewestFirst(_)
Join_NewestFirst(reasons) ==
    IF reasons = <<>> THEN ""
    ELSE IF Len(reasons) = 1 THEN reasons[1]
    ELSE Join_NewestFirst(Tail(reasons)) \o "|" \o reasons[1]

RECURSIVE Join(_)
Join(reasons) ==
    IF reasons = <<>> THEN ""
    ELSE IF Len(reasons) = 1 THEN reasons[1]
    ELSE reasons[1] \o "|" \o Join(Tail(reasons))

\* Variant: high only when all three rules fire.
AlertLevel_HighOnlyAtFive(score) ==
    IF score >= 5 THEN "high" ELSE IF score >= 2 THEN "medium" ELSE "low"

\* Variant: high from a score of 3.
AlertLevel_HighFromThree(score) ==
    IF score >= 3 THEN "high" ELSE IF score >= 2 THEN "medium" ELSE "low"

AlertLevel(score) ==
    IF score >= 4 THEN "high" ELSE IF score >= 2 THEN "medium" ELSE "low"

\* Variant: every rule weighs one point.
RiskScore_EqualWeights(worsen, severe, high) == worsen + severe + high

RiskScore(worsen, severe, high) == worsen * 1 + severe * 2 + high * 2

AlertRow(row, prev_dep, prev_anx, prev_ins) ==
    LET dep == row.dep_week_pred_0_100
        anx == row.anx_week_pred_0_100
        ins == row.ins_week_pred_0_100
        dep_week_delta == Delta(prev_dep, dep)
        anx_week_delta == Delta(prev_anx, anx)
        ins_week_delta == Delta(prev_ins, ins)
        dep_severity == SeverityBucket(dep)
        anx_severity == SeverityBucket(anx)
        ins_severity == SeverityBucket(ins)
        rule_week_delta_worsen ==
            Jump(dep_week_delta) \/ Jump(anx_week_delta) \/ Jump(ins_week_delta)
        rule_any_severe ==
            \E x \in {dep_severity, anx_severity, ins_severity} : x = "severe"
        rule_composite_high == RGe(row.symptom_composite_pred_0_100, R(65))
        score == RiskScore(BoolInt(rule_week_delta_worsen), BoolInt(rule_any_severe),
                           BoolInt(rule_composite_high))
        reasons ==
            (IF rule_week_delta_worsen THEN <<"worsening_delta">> ELSE <<>>)
              \o (IF rule_any_severe THEN <<"severe_band">> ELSE <<>>)
              \o (IF rule_composite_high THEN <<"high_composite">> ELSE <<>>)
    IN  [ week_start_date |-> row.week_start_date,
          dep_week_pred_0_100 |-> dep,
          anx_week_pred_0_100 |-> anx,
          ins_week_pred_0_100 |-> ins,
          symptom_composite_pred_0_100 |-> row.symptom_composite_pred_0_100,
          active_days |-> row.active_days,
          dep_week_delta |-> dep_week_delta,
          anx_week_delta |-> anx_week_delta,
          ins_week_delta |-> ins_week_delta,
          dep_severity |-> dep_severity,
          anx_severity |-> anx_severity,
          ins_severity |-> ins_severity,
          rule_week_delta_worsen |-> BoolInt(rule_week_delta_worsen),
          rule_any_severe |-> BoolInt(rule_any_severe),
          rule_composite_high |-> BoolInt(rule_composite_high),
          alert_risk_score |-> score,
          alert_flag |-> BoolInt(score >= 2),
          alert_level |-> AlertLevel(score),
          alert_reason_codes |-> Join(reasons) ]

RECURSIVE AlertLoop(_, _, _, _)
AlertLoop(weekly, prev_dep, prev_anx, prev_ins) ==
    IF weekly = <<>> THEN <<>>
    ELSE LET row == weekly[1]
         IN  <<AlertRow(row, prev_dep, prev_anx, prev_ins)>>
               \o AlertLoop(Tail(weekly), row.dep_week_pred_0_100,
                            row.anx_week_pred_0_100, row.ins_week_pred_0_100)

ApplyAlertRules(weekly) == AlertLoop(weekly, None, None, None)

\* Everything after day_scores is complete: lines 232-256.
RollupAndAlert(scores) == ApplyAlertRules(WeeklyRollup(scores))

(***************************************************************************)
(* Requests.  The server clock only moves forward; a request arrives on    *)
(* the day of the previous one or later, and the row it stores gets that   *)
(* day as created_at.                                                      *)
(***************************************************************************)
CheckinPayloads ==
    { [mood_score |-> 10, sleep_hours |-> R(0), exercised |-> TRUE,
       challenge_completed_count |-> 0, challenge_total_count |-> 0],
      [mood_score |-> 1, sleep_hours |-> None, exercised |-> FALSE,
       challenge_completed_count |-> 0, challenge_total_count |-> 0],
      [mood_score |-> 1, sleep_hours |-> None, exercised |-> FALSE,
       challenge_completed_count |-> 3, challenge_total_count |-> 2],
      [mood_score |-> 1, sleep_hours |-> None, exercised |-> FALSE,
       challenge_completed_count |-> 1, challenge_total_count |-> 2] }

NoDistortion == [isdict |-> FALSE, values |-> <<>>]

\* The stored JSON of a chat row; a key may be absent.
ExtractedInputs ==
    { [distress_0_10 |-> R(10), rumination_0_10 |-> R(10),
       sleep_difficulty_0_10 |-> R(10),
       distortion |-> [isdict |-> TRUE, values |-> <<20, 20, 10>>]],
      [distress_0_10 |-> R(3), rumination_0_10 |-> None,
       sleep_difficulty_0_10 |-> R(4), distortion |-> NoDistortion] }

PhqTotals == {0, 18}

EventCount == Len(checkins) + Len(chats) + Len(assessments)

\* The locals and the result of an earlier dashboard request are gone.
Forget == /\ built' = FALSE
          /\ day_locals' = <<>>
          /\ day_scores' = <<>>
          /\ rows' = <<>>

\* Nothing has been asked of the other services.
OtherIdle ==
    /\ dashboards = <<>>
    /\ phq9_scores = <<>>
    /\ phq9_result = <<>>
    /\ users = <<>>
    /\ inflight = {}
    /\ login_events = <<>>
    /\ response = <<>>
    /\ posts = <<>>
    /\ admin_emails = {}
    /\ python_sum = "left_to_right"
    /\ comments = <<>>
    /\ objects = <<>>

\* No event is stored and no dashboard has been requested.
DashIdle ==
    /\ today = 0
    /\ checkins = <<>>
    /\ chats = <<>>
    /\ assessments = <<>>
    /\ built = FALSE
    /\ day_locals = <<>>
    /\ day_scores = <<>>
    /\ rows = <<>>

Init ==
    /\ OtherIdle
    /\ today = 0
    /\ checkins = <<>>
    /\ chats = <<>>
    /\ assessments = <<>>
    /\ built = FALSE
    /\ day_locals = <<>>
    /\ day_scores = <<>>
    /\ rows = <<>>

CreateCheckin ==
    /\ EventCount < MaxEvents
    /\ \E d \in EventDates : d >= today /\ today' = d
    /\ \E p \in CheckinPayloads :
         checkins' = Append(checkins,
             [ created_at |-> today',
               mood_score |-> p.mood_score,
               sleep_hours |-> p.sleep_hours,
               exercised |-> (p.exercised \/ p.challenge_completed_count > 0),
               note |-> [has |-> TRUE,
                         challenge_completed_count |-> p.challenge_completed_count,
                         challenge_total_count |-> p.challenge_total_count] ])
    /\ Forget
    /\ UNCHANGED <<chats, assessments>>
    /\ UNCHANGED otherVars

CreateChatEvent ==
    /\ EventCount < MaxEvents
    /\ \E d \in EventDates : d >= today /\ today' = d
    /\ \E e \in ExtractedInputs :
         chats' = Append(chats, [created_at |-> today', extracted |-> e])
    /\ Forget
    /\ UNCHANGED <<checkins, assessments>>
    /\ UNCHANGED otherVars

CreatePhq9Assessment ==
    /\ EventCount < MaxEvents
    /\ \E d \in EventDates : d >= today /\ today' = d
    /\ \E t \in PhqTotals :
         assessments' = Append(assessments, [created_at |-> today', total_score |-> t])
    /\ Forget
    /\ UNCHANGED <<checkins, chats>>
    /\ UNCHANGED otherVars

\* Variant: without events the current week is reported at the default midpoint.
BuildUserWeeklyDashboard_DefaultWeek ==
    /\ built' = TRUE
    /\ LET locals == DayLocalsTrace(checkins, chats, assessments)
           scores == MapSeq(locals, DayScore)
       IN  /\ day_locals' = locals
           /\ day_scores' = scores
           /\ rows' = IF DayKeys(checkins, chats, assessments) = {}
                      THEN RollupAndAlert(<<[date |-> today, dep |-> R(50),
                                             anx |-> R(50), ins |-> R(50)]>>)
                      ELSE RollupAndAlert(scores)
    /\ UNCHANGED <<today, checkins, chats, assessments>>
    /\ UNCHANGED otherVars

BuildUserWeeklyDashboard ==
    /\ built' = TRUE
    /\ LET locals == DayLocalsTrace(checkins, chats, assessments)
           scores == MapSeq(locals, DayScore)
       IN  /\ day_locals' = locals
           /\ day_scores' = scores
           /\ rows' = IF DayKeys(checkins, chats, assessments) = {} THEN <<>>
                      ELSE RollupAndAlert(scores)
    /\ UNCHANGED <<today, checkins, chats, assessments>>
    /\ UNCHANGED otherVars

Next ==
    \/ CreateCheckin
    \/ CreateChatEvent
    \/ CreatePhq9Assessment
    \/ BuildUserWeeklyDashboard

Spec == Init /\ [][Next]_vars


(***************************************************************************)
(* The roll-up and the alert pass on their own: day_scores is any list the *)
(* scoring loop can leave (ascending dates, one entry per day, scores in   *)
(* [0,100]), here one day in each of up to MaxWeeks weeks with scores at   *)
(* and around the thresholds of the rules.                                 *)
(***************************************************************************)
\* <<dep, anx, ins>> of one day.
AlertScoreInputs ==
    { <<24, 50, 74>>, <<25, 50, 100>>, <<49, 50, 74>>, <<50, 51, 74>>,
      <<50, 50, 0>>, <<70, 50, 74>>, <<70, 51, 74>>, <<74, 50, 74>>,
      <<75, 51, 74>>, <<75, 50, 0>>, <<75, 51, 100>> }

\* Monday of week 0, Monday of week 1, then Mondays with one empty week before.
AlertDate(i) == IF i <= 2 THEN 7 * (i - 1) ELSE 7 * i

AlertDayScores ==
    UNION { { [i \in 1..n |-> [date |-> AlertDate(i),
                               dep |-> R(t[i][1]),
                               anx |-> R(t[i][2]),
                               ins |-> R(t[i][3])]] :
                t \in [1..n -> AlertScoreInputs] } : n \in 1..MaxWeeks }

InitAlert ==
    /\ OtherIdle
    /\ today = 0
    /\ checkins = <<>>
    /\ chats = <<>>
    /\ assessments = <<>>
    /\ built = FALSE
    /\ day_locals = <<>>
    /\ day_scores \in AlertDayScores
    /\ rows = <<>>

WeeklyAlertPass ==
    /\ ~built
    /\ built' = TRUE
    /\ rows' = RollupAndAlert(day_scores)
    /\ UNCHANGED <<today, checkins, chats, assessments, day_locals, day_scores>>
    /\ UNCHANGED otherVars

NextAlert == WeeklyAlertPass

SpecAlert == InitAlert /\ [][NextAlert]_vars

(***************************************************************************)
(* The same pass over day_scores lists that differ in which days are       *)
(* present: Monday, Wednesday and Sunday of week 0, Monday and Sunday of   *)
(* week 1, nothing in week 2, Monday and Sunday of week 3; and over the    *)
(* seven days of week 0.                                                   *)
(***************************************************************************)
WeekDates == {0, 2, 6, 7, 13, 21, 27}

WeekScoreInputs == { <<10, 20, 30>>, <<80, 60, 70>> }

\* The days that have a score: any of WeekDates, or every day of week 0 with
\* or without the Monday after it.
WeekDaySets == (SUBSET WeekDates \ {{}}) \cup {0..6, 0..7}

WeekDayScores ==
    UNION { { LET days == SortedSeq(D)
              IN  [i \in 1..Len(days) |-> [date |-> days[i],
                                           dep |-> R(f[days[i]][1]),
                                           anx |-> R(f[days[i]][2]),
                                           ins |-> R(f[days[i]][3])]] :
                f \in [D -> WeekScoreInputs] } : D \in WeekDaySets }

InitWeeks ==
    /\ OtherIdle
    /\ today = 0
    /\ checkins = <<>>
    /\ chats = <<>>
    /\ assessments = <<>>
    /\ built = FALSE
    /\ day_locals = <<>>
    /\ day_scores \in WeekDayScores
    /\ rows = <<>>

SpecWeeks == InitWeeks /\ [][NextAlert]_vars

(***************************************************************************)
(* The last two stages of build_user_weekly_dashboard with the identity of *)
(* the objects they work on.  objects is empty before the roll-up; then    *)
(* heap holds each row dict at its own address and the list of their       *)
(* addresses at another, rows is the address of the list the roll-up built *)
(* and result, once _apply_alert_rules has returned, the address of the    *)
(* list it returned.                                                       *)
(***************************************************************************)
\* rows: list[dict] = [] filled by rows.append({...}), lines 237-254
AllocateRows(weekly) ==
    LET n == Len(weekly)
    IN  [ heap |-> [ a \in 1..(n + 1) |->
                       IF a <= n THEN weekly[a] ELSE [ i \in 1..n |-> i ] ],
          rows |-> n + 1 ]

\* for row in rows: row[...] = ...: the dicts of the list at address list get
\* the keys of the alert pass; no object is created.
RECURSIVE AlertLoopInPlace(_, _, _, _, _, _)
AlertLoopInPlace(heap, list, i, prev_dep, prev_anx, prev_ins) ==
    IF i > Len(heap[list]) THEN heap
    ELSE LET a == heap[list][i]
             row == heap[a]
         IN  AlertLoopInPlace([heap EXCEPT ![a] = AlertRow(row, prev_dep, prev_anx, prev_ins)],
                              list, i + 1, row.dep_week_pred_0_100,
                              row.anx_week_pred_0_100, row.ins_week_pred_0_100)

\* _apply_alert_rules(rows) ... return rows
ApplyAlertRulesInPlace(obj) ==
    [ heap |-> AlertLoopInPlace(obj.heap, obj.rows, 1, None, None, None),
      rows |-> obj.rows,
      result |-> obj.rows ]

\* The dicts of the list at an address, in the order of the list.
ListValue(heap, list) == [ i \in 1..Len(heap[list]) |-> heap[heap[list][i]] ]

WeeklyRollupStage ==
    /\ objects = <<>>
    /\ objects' = AllocateRows(WeeklyRollup(day_scores))
    /\ UNCHANGED dashVars
    /\ UNCHANGED <<dashboards, phq9_scores, phq9_result, users, inflight, login_events,
                   response, posts, admin_emails, python_sum, comments>>

AlertRulesStage ==
    /\ objects # <<>>
    /\ "result" \notin DOMAIN objects
    /\ objects' = ApplyAlertRulesInPlace(objects)
    /\ built' = TRUE
    /\ rows' = ListValue(objects'.heap, objects'.result)
    /\ UNCHANGED <<today, checkins, chats, assessments, day_locals, day_scores>>
    /\ UNCHANGED <<dashboards, phq9_scores, phq9_result, users, inflight, login_events,
                   response, posts, admin_emails, python_sum, comments>>

NextStages ==
    \/ WeeklyRollupStage
    \/ AlertRulesStage

SpecStages == InitAlert /\ [][NextStages]_vars

(***************************************************************************)
(* The batch scoring path, src/model/src: make_weekly_dashboard over the   *)
(* day predictions of one user and add_weekly_alert_columns.  A day        *)
(* prediction is [date, dep, anx, ins]; the observation and check-in       *)
(* counts of the frame play no part in the alert columns and are left out. *)
(***************************************************************************)
\* pd.cut(score, bins=[-1, 25, 50, 75, 101], labels=[...]).astype(str): the
\* bins are closed on the right.
PdCutSeverity(score) ==
    IF RLe(score, R(-1)) \/ RLt(R(101), score) THEN "nan"
    ELSE IF RLe(score, R(25)) THEN "minimal"
    ELSE IF RLe(score, R(50)) THEN "mild"
    ELSE IF RLe(score, R(75)) THEN "moderate"
    ELSE "severe"

\* groupby(week_start_date).agg(mean), sorted, with the row mean as composite
GroupByWeek(pred_day) ==
    LET weeks == SortedSeq({WeekStart(pred_day[i].date) : i \in 1..Len(pred_day)})
        Week(w, items) ==
            [ week_start_date |-> w,
              dep_week_pred_0_100 |-> Mean(MapSeq(items, LAMBDA x : x.dep)),
              anx_week_pred_0_100 |-> Mean(MapSeq(items, LAMBDA x : x.anx)),
              ins_week_pred_0_100 |-> Mean(MapSeq(items, LAMBDA x : x.ins)) ]
    IN  MapSeq(weeks, LAMBDA w : Week(w, WeekItems(pred_day, w)))

\* Series.diff(): no value on the first row
SeriesDiff(g, k, column) ==
    IF k = 1 THEN None ELSE RSub(g[k][column], g[k - 1][column])

\* fillna(0)
FillNa(delta) == IF IsNone(delta) THEN R(0) ELSE delta

\* lines 58-74 for row k of the grouped frame
WeeklyColumns(g, k) ==
    [ week_start_date |-> g[k].week_start_date,
      dep_week_pred_0_100 |-> g[k].dep_week_pred_0_100,
      anx_week_pred_0_100 |-> g[k].anx_week_pred_0_100,
      ins_week_pred_0_100 |-> g[k].ins_week_pred_0_100,
      symptom_composite_pred_0_100 |->
          Mean(<<g[k].dep_week_pred_0_100, g[k].anx_week_pred_0_100,
                 g[k].ins_week_pred_0_100>>),
      dep_week_delta |-> SeriesDiff(g, k, "dep_week_pred_0_100"),
      anx_week_delta |-> SeriesDiff(g, k, "anx_week_pred_0_100"),
      ins_week_delta |-> SeriesDiff(g, k, "ins_week_pred_0_100"),
      dep_severity |-> PdCutSeverity(g[k].dep_week_pred_0_100),
      anx_severity |-> PdCutSeverity(g[k].anx_week_pred_0_100),
      ins_severity |-> PdCutSeverity(g[k].ins_week_pred_0_100) ]

\* The alert columns of one row of the weekly frame
AddWeeklyAlertColumns(row) ==
    LET worsening_rule ==
            \/ RGe(FillNa(row.dep_week_delta), R(5))
            \/ RGe(FillNa(row.anx_week_delta), R(5))
            \/ RGe(FillNa(row.ins_week_delta), R(5))
        severe_rule ==
            \/ row.dep_severity = "severe"
            \/ row.anx_severity = "severe"
            \/ row.ins_severity = "severe"
        high_composite_rule == RGe(row.symptom_composite_pred_0_100, R(65))
        Columns(worsen, severe, high, score) ==
            [ rule_week_delta_worsen |-> worsen,
              rule_any_severe |-> severe,
              rule_composite_high |-> high,
              alert_risk_score |-> score,
              alert_flag |-> BoolInt(score >= 2),
              alert_level |-> IF score >= 4 THEN "high"
                              ELSE IF score >= 2 THEN "medium" ELSE "low",
              alert_reason_codes |->
                  Join((IF worsen = 1 THEN <<"worsening_delta">> ELSE <<>>)
                         \o (IF severe = 1 THEN <<"severe_band">> ELSE <<>>)
                         \o (IF high = 1 THEN <<"high_composite">> ELSE <<>>)) ]
        Scored(worsen, severe, high) ==
            Columns(worsen, severe, high, worsen * 1 + severe * 2 + high * 2)
    IN  row @@ Scored(BoolInt(worsening_rule), BoolInt(severe_rule),
                      BoolInt(high_composite_rule))

BatchAlerts(g) == [ k \in 1..Len(g) |-> AddWeeklyAlertColumns(WeeklyColumns(g, k)) ]

MakeWeeklyDashboard(pred_day) == BatchAlerts(GroupByWeek(pred_day))


(***************************************************************************)
(* services/scoring.py: the PHQ-9 scorer, applied to every list of nine    *)
(* item scores in 0..3 and to the two malformed lists of the tests.        *)
(***************************************************************************)
\* Variant: the upper bands start one point later.
SeverityFromTotal_LateBands(total_score) ==
    IF total_score <= 5 THEN "minimal"
    ELSE IF total_score <= 10 THEN "mild"
    ELSE IF total_score <= 15 THEN "moderate"
    ELSE IF total_score <= 20 THEN "moderately_severe"
    ELSE "severe"

SeverityFromTotal(total_score) ==
    IF total_score <= 4 THEN "minimal"
    ELSE IF total_score <= 9 THEN "mild"
    ELSE IF total_score <= 14 THEN "moderate"
    ELSE IF total_score <= 19 THEN "moderately_severe"
    ELSE "severe"

ValueError == [raised |-> "ValueError"]

ScorePhq9(scores) ==
    IF Len(scores) # 9 THEN ValueError
    ELSE IF \E idx \in 1..Len(scores) : scores[idx] < 0 \/ scores[idx] > 3
    THEN ValueError
    ELSE LET total_score == ISum(scores)
         IN  [ raised |-> "",
               total_score |-> total_score,
               severity |-> SeverityFromTotal(total_score) ]

Phq9Inputs ==
    [1..9 -> 0..3] \cup {<<1, 1, 1>>, <<0, 0, 0, 0, 0, 0, 0, 0, 4>>}

InitPhq9 ==
    /\ DashIdle
    /\ dashboards = <<>>
    /\ phq9_scores \in Phq9Inputs
    /\ phq9_result = <<>>
    /\ users = <<>>
    /\ inflight = {}
    /\ login_events = <<>>
    /\ response = <<>>
    /\ posts = <<>>
    /\ admin_emails = {}
    /\ python_sum = "left_to_right"
    /\ comments = <<>>
    /\ objects = <<>>

ScorePhq9Call ==
    /\ phq9_result = <<>>
    /\ phq9_result' = ScorePhq9(phq9_scores)
    /\ UNCHANGED dashVars
    /\ UNCHANGED <<dashboards, phq9_scores, users, inflight, login_events, response,
                   posts, admin_emails, python_sum, comments, objects>>

NextPhq9 == ScorePhq9Call

SpecPhq9 == InitPhq9 /\ [][NextPhq9]_vars


(***************************************************************************)
(* Several users.  The three tables hold the rows of every user, each row  *)
(* with its user_id; a dashboard request of one user selects that user's   *)
(* rows and runs the computation above on them.  dashboards[u] is the list *)
(* last returned to u; it is dropped when u stores a new event.            *)
(***************************************************************************)
MaxUserEvents == 3

UserIds == {"u1", "u2"}

UserEventDates == {0, 7}

UserCheckinPayloads ==
    { [mood_score |-> 1, sleep_hours |-> None, exercised |-> FALSE,
       challenge_completed_count |-> 0, challenge_total_count |-> 0] }

UserExtractedInputs ==
    { [distress_0_10 |-> R(10), rumination_0_10 |-> R(10),
       sleep_difficulty_0_10 |-> R(10),
       distortion |-> [isdict |-> TRUE, values |-> <<20, 20, 10>>]] }

\* Variant: the statement has no WHERE clause on user_id.
SelectUser_AllRows(table, user_id) == table

\* select(...).where(<Table>.user_id == user_id)
SelectUser(table, user_id) == SelectSeq(table, LAMBDA row : row.user_id = user_id)

\* The list build_user_weekly_dashboard returns for the fetched rows.
UserWeeklyDashboard(cks, chs, asms) ==
    IF DayKeys(cks, chs, asms) = {} THEN <<>>
    ELSE RollupAndAlert(DayScores(cks, chs, asms))

NotServed == [built |-> FALSE, rows |-> <<>>]

InitUsers ==
    /\ DashIdle
    /\ dashboards = [u \in UserIds |-> NotServed]
    /\ phq9_scores = <<>>
    /\ phq9_result = <<>>
    /\ users = <<>>
    /\ inflight = {}
    /\ login_events = <<>>
    /\ response = <<>>
    /\ posts = <<>>
    /\ admin_emails = {}
    /\ python_sum = "left_to_right"
    /\ comments = <<>>
    /\ objects = <<>>

UsersUnchanged ==
    UNCHANGED <<built, day_locals, day_scores, rows, phq9_scores, phq9_result,
                users, inflight, login_events, response, posts, admin_emails,
                python_sum, comments, objects>>

CreateCheckinFor(u) ==
    /\ EventCount < MaxUserEvents
    /\ \E d \in UserEventDates : d >= today /\ today' = d
    /\ \E p \in UserCheckinPayloads :
         checkins' = Append(checkins,
             [ user_id |-> u,
               created_at |-> today',
               mood_score |-> p.mood_score,
               sleep_hours |-> p.sleep_hours,
               exercised |-> (p.exercised \/ p.challenge_completed_count > 0),
               note |-> [has |-> TRUE,
                         challenge_completed_count |-> p.challenge_completed_count,
                         challenge_total_count |-> p.challenge_total_count] ])
    /\ dashboards' = [dashboards EXCEPT ![u] = NotServed]
    /\ UNCHANGED <<chats, assessments>>
    /\ UsersUnchanged

CreateChatEventFor(u) ==
    /\ EventCount < MaxUserEvents
    /\ \E d \in UserEventDates : d >= today /\ today' = d
    /\ \E e \in UserExtractedInputs :
         chats' = Append(chats, [user_id |-> u, created_at |-> today', extracted |-> e])
    /\ dashboards' = [dashboards EXCEPT ![u] = NotServed]
    /\ UNCHANGED <<checkins, assessments>>
    /\ UsersUnchanged

CreatePhq9AssessmentFor(u) ==
    /\ EventCount < MaxUserEvents
    /\ \E d \in UserEventDates : d >= today /\ today' = d
    /\ \E t \in PhqTotals :
         assessments' = Append(assessments,
             [user_id |-> u, created_at |-> today', total_score |-> t])
    /\ dashboards' = [dashboards EXCEPT ![u] = NotServed]
    /\ UNCHANGED <<checkins, chats>>
    /\ UsersUnchanged

BuildUserWeeklyDashboardFor(u) ==
    /\ dashboards' =
         [dashboards EXCEPT ![u] =
             [ built |-> TRUE,
               rows |-> UserWeeklyDashboard(SelectUser(checkins, u),
                                            SelectUser(chats, u),
                                            SelectUser(assessments, u)) ]]
    /\ UNCHANGED <<today, checkins, chats, assessments>>
    /\ UsersUnchanged

NextUsers ==
    \E u \in UserIds :
        \/ CreateCheckinFor(u)
        \/ CreateChatEventFor(u)
        \/ CreatePhq9AssessmentFor(u)
        \/ BuildUserWeeklyDashboardFor(u)

SpecUsers == InitUsers /\ [][NextUsers]_vars


(***************************************************************************)
(* Accounts: api/routes_auth.py on db/crud.py.  A row of users is [id,     *)
(* email, password_hash, nickname, profile]; profile tells whether the     *)
(* user_profile row of the account exists.  A signup request that found no *)
(* account for its email waits in inflight until its INSERT runs; requests *)
(* of other clients are served in between.  response is the answer to the  *)
(* request completed last.                                                 *)
(***************************************************************************)
MaxInflight == 2

MaxLoginEvents == 1

Passwords == {"pw1", "pw2"}

Nicknames == {"n1", "n2"}

\* A field the request leaves out (Python None).
Missing == "None"

SignupPayloads ==
    { [email |-> "a@x.io", password |-> "pw1", nickname |-> "n1"],
      [email |-> "a@x.io", password |-> "pw2", nickname |-> "n2"],
      [email |-> "b@x.io", password |-> "pw1", nickname |-> "n1"] }

ProfilePayloads ==
    [ nickname : {Missing, "n2"},
      current_password : Passwords \cup {Missing},
      new_password : Passwords \cup {Missing} ]

\* bcrypt: the hash is only ever compared through verify_password.
HashPassword(password) == [bcrypt |-> password]

VerifyPassword(plain_password, hashed_password) ==
    hashed_password = HashPassword(plain_password)

NoUser == [id |-> 0]

WithEmail(us, email) == {i \in 1..Len(us) : us[i].email = email}

GetUserByEmail(us, email) ==
    IF WithEmail(us, email) = {} THEN NoUser
    ELSE us[CHOOSE i \in WithEmail(us, email) : TRUE]

GetUserById(us, user_id) ==
    IF user_id \in 1..Len(us) THEN us[user_id] ELSE NoUser

\* Variant: the email column carries no unique index.
UniqueEmailViolated_NoIndex(us, email) == FALSE

\* user.email is unique=True: the INSERT fails when the email is taken.
UniqueEmailViolated(us, email) == WithEmail(us, email) # {}

CreateUser(us, email, password, nickname) ==
    Append(us, [ id |-> Len(us) + 1,
                 email |-> email,
                 password_hash |-> HashPassword(password),
                 nickname |-> nickname,
                 profile |-> FALSE ])

AuthenticateUser(us, email, password) ==
    LET user == GetUserByEmail(us, email)
    IN  IF user = NoUser \/ ~VerifyPassword(password, user.password_hash) THEN NoUser
        ELSE user

\* The status of POST /auth/login on the table us.
LoginStatus(us, email, password) ==
    IF AuthenticateUser(us, email, password) = NoUser THEN 401 ELSE 200

\* Variant: the new password is not stored.
UpdateUserProfile_KeepPassword(us, user_id, nickname, new_password) ==
    [us EXCEPT ![user_id].nickname = IF nickname # Missing THEN nickname ELSE @]

UpdateUserProfile(us, user_id, nickname, new_password) ==
    [us EXCEPT ![user_id].nickname = IF nickname # Missing THEN nickname ELSE @,
               ![user_id].password_hash =
                   IF new_password # Missing THEN HashPassword(new_password) ELSE @]

GetOrCreateUserProfile(us, user_id) == [us EXCEPT ![user_id].profile = TRUE]

InitAuth ==
    /\ DashIdle
    /\ dashboards = <<>>
    /\ phq9_scores = <<>>
    /\ phq9_result = <<>>
    /\ users = <<>>
    /\ inflight = {}
    /\ login_events = <<>>
    /\ response = <<>>
    /\ posts = <<>>
    /\ admin_emails = {}
    /\ python_sum = "left_to_right"
    /\ comments = <<>>
    /\ objects = <<>>

AuthUnchanged ==
    UNCHANGED <<today, checkins, chats, assessments, built, day_locals, day_scores,
                rows, dashboards, phq9_scores, phq9_result, posts, admin_emails,
                python_sum, comments, objects>>

\* signup up to the await of crud.create_user.
SignupCheck(payload) ==
    /\ payload \notin inflight
    /\ LET existing == GetUserByEmail(users, payload.email)
       IN  IF existing # NoUser
           THEN /\ response' = [op |-> "signup", request |-> payload, status |-> 409]
                /\ inflight' = inflight
           ELSE /\ Cardinality(inflight) < MaxInflight
                /\ inflight' = inflight \cup {payload}
                /\ response' = response
    /\ UNCHANGED <<users, login_events>>
    /\ AuthUnchanged

\* crud.create_user for a request that passed the check.
SignupCreate(payload) ==
    /\ payload \in inflight
    /\ inflight' = inflight \ {payload}
    /\ IF UniqueEmailViolated(users, payload.email)
       THEN /\ users' = users
            /\ response' = [op |-> "signup", request |-> payload, status |-> 500]
       ELSE /\ users' = CreateUser(users, payload.email, payload.password,
                                   payload.nickname)
            /\ response' = [op |-> "signup", request |-> payload, status |-> 201]
    /\ UNCHANGED login_events
    /\ AuthUnchanged

Login(email, password) ==
    /\ LET user == AuthenticateUser(users, email, password)
           status == LoginStatus(users, email, password)
       IN  /\ status = 200 => Len(login_events) < MaxLoginEvents
           /\ login_events' = IF status = 200 THEN Append(login_events, user.id)
                               ELSE login_events
           /\ response' = [op |-> "login",
                           request |-> [email |-> email, password |-> password],
                           status |-> status]
    /\ UNCHANGED <<users, inflight>>
    /\ AuthUnchanged

\* PATCH /auth/me/profile with the token of account user_id.
UpdateMyProfile(user_id, payload) ==
    /\ user_id \in 1..Len(users)
    /\ LET user == GetUserById(users, user_id)
           answer(code) == [op |-> "update_profile", user_id |-> user_id,
                            request |-> payload, status |-> code]
       IN  IF user = NoUser
           THEN users' = users /\ response' = answer(404)
           ELSE IF payload.new_password # Missing /\ payload.current_password = Missing
           THEN users' = users /\ response' = answer(400)
           ELSE IF /\ payload.new_password # Missing
                   /\ ~VerifyPassword(payload.current_password, user.password_hash)
           THEN users' = users /\ response' = answer(401)
           ELSE /\ users' = GetOrCreateUserProfile(
                                UpdateUserProfile(users, user_id, payload.nickname,
                                                  payload.new_password), user_id)
                /\ response' = answer(200)
    /\ UNCHANGED <<inflight, login_events>>
    /\ AuthUnchanged

NextAuth ==
    \/ \E payload \in SignupPayloads : SignupCheck(payload)
    \/ \E payload \in SignupPayloads : SignupCreate(payload)
    \/ \E payload \in SignupPayloads : Login(payload.email, payload.password)
    \/ \E user_id \in 1..Len(users), payload \in ProfilePayloads :
           UpdateMyProfile(user_id, payload)

SpecAuth == InitAuth /\ [][NextAuth]_vars


(***************************************************************************)
(* Community board: the post create and update handlers of                 *)
(* routes_board.py, the request schemas of schemas/board.py they are       *)
(* called with, and the admin account list of admin_service.py.  A request *)
(* body is the function from the flag keys present in its JSON to their    *)
(* values; category, title and content are always present and valid.       *)
(***************************************************************************)
MaxPosts == 2

BoardUsers == {"admin@example.com", "user3@example.com", "user4@example.com"}

EnvAdminEmails == {"admin@example.com"}

AdminOwnerEmail == "admin@example.com"

FlagKeys == {"is_notice", "is_mental_health_post"}

BoardBodies == UNION { [K -> BOOLEAN] : K \in SUBSET FlagKeys }

BoardPostCreateRequestFields == {"category", "title", "content", "is_notice", "is_private"}

BoardPostUpdateRequestFields == {"category", "title", "content", "is_notice", "is_private"}

CreateBoardPostParams == {"author_id", "category", "title", "content", "is_notice", "is_private"}

UpdateBoardPostParams == {"title", "content", "category", "is_notice", "is_private"}

\* extra="forbid": a body with a key that is no field of the schema is
\* rejected before the handler runs (422).
ExtraForbidden(fields, body) == \E k \in DOMAIN body : k \notin fields

\* payload.<key> of a validated create request: the value sent, else the
\* field's default False.
CreateField(body, key) == IF key \in DOMAIN body THEN body[key] ELSE FALSE

\* payload.<key> is not None
UpdateFieldSet(body, key) == key \in DOMAIN body

IsAdminUser(email) == email \in (EnvAdminEmails \cup admin_emails)

GetBoardPostById(table, post_id) ==
  IF post_id \in 1..Len(table) THEN table[post_id] ELSE NoUser

CreateBoardPost(table, author_id, body) ==
  Append(table, [ id |-> Len(table) + 1,
                  author_id |-> author_id,
                  is_notice |-> CreateField(body, "is_notice"),
                  is_mental_health_post |-> CreateField(body, "is_mental_health_post") ])

UpdateBoardPost(table, post_id, body) ==
  [ table EXCEPT ![post_id] =
      [ @ EXCEPT !.is_notice = IF UpdateFieldSet(body, "is_notice")
                                 THEN body["is_notice"] ELSE @,
                 !.is_mental_health_post =
                               IF UpdateFieldSet(body, "is_mental_health_post")
                                 THEN body["is_mental_health_post"] ELSE @ ] ]

\* Status of POST /board/posts.  Reading an attribute the schema does not
\* declare raises AttributeError, and passing a keyword the crud function
\* does not take raises TypeError: both are unhandled and answered 500.
CreatePostStatus(email, body) ==
  IF ExtraForbidden(BoardPostCreateRequestFields, body) THEN 422
  ELSE IF CreateField(body, "is_notice") /\ ~IsAdminUser(email) THEN 403
  ELSE IF "is_mental_health_post" \notin BoardPostCreateRequestFields THEN 500
  ELSE IF CreateField(body, "is_mental_health_post") /\ ~IsAdminUser(email) THEN 403
  ELSE IF "is_mental_health_post" \notin CreateBoardPostParams THEN 500
  ELSE 201

\* Status of PATCH /board/posts/{post_id}.
UpdatePostStatus(email, post_id, body) ==
  LET row == GetBoardPostById(posts, post_id) IN
  IF ExtraForbidden(BoardPostUpdateRequestFields, body) THEN 422
  ELSE IF row = NoUser THEN 404
  ELSE IF row.author_id # email /\ ~IsAdminUser(email) THEN 403
  ELSE IF UpdateFieldSet(body, "is_notice") /\ ~IsAdminUser(email) THEN 403
  ELSE IF "is_mental_health_post" \notin BoardPostUpdateRequestFields THEN 500
  ELSE IF UpdateFieldSet(body, "is_mental_health_post") /\ ~IsAdminUser(email) THEN 403
  ELSE IF "is_mental_health_post" \notin UpdateBoardPostParams THEN 500
  ELSE 200

\* Rows of board_post found in the database at start-up: none, or a post
\* written before the is_mental_health_post column was added, which
\* _ensure_board_schema fills with the column default FALSE.
StoredPosts ==
  { <<>>,
    << [ id |-> 1, author_id |-> "user3@example.com",
         is_notice |-> FALSE, is_mental_health_post |-> FALSE ] >> }

InitBoard ==
  /\ DashIdle
  /\ dashboards = <<>>
  /\ phq9_scores = <<>>
  /\ phq9_result = <<>>
  /\ users = <<>>
  /\ inflight = {}
  /\ login_events = <<>>
  /\ response = <<>>
  /\ posts \in StoredPosts
  /\ admin_emails = {}
  /\ python_sum = "left_to_right"
  /\ comments = <<>>
  /\ objects = <<>>

BoardUnchanged ==
  UNCHANGED <<dashVars, dashboards, phq9_scores, phq9_result, users, inflight, login_events,
              python_sum, comments, objects>>

CreatePost(email, body) ==
  LET status == CreatePostStatus(email, body) IN
  /\ response' = [ op |-> "create_post", user |-> email, post_id |-> 0,
                   request |-> body, status |-> status ]
  /\ IF status = 201
       THEN /\ Len(posts) < MaxPosts
            /\ posts' = CreateBoardPost(posts, email, body)
       ELSE posts' = posts
  /\ UNCHANGED admin_emails
  /\ BoardUnchanged

UpdatePost(email, post_id, body) ==
  LET status == UpdatePostStatus(email, post_id, body) IN
  /\ response' = [ op |-> "update_post", user |-> email, post_id |-> post_id,
                   request |-> body, status |-> status ]
  /\ posts' = IF status = 200 THEN UpdateBoardPost(posts, post_id, body) ELSE posts
  /\ UNCHANGED admin_emails
  /\ BoardUnchanged

AddAdminAccountEmail(actor, email) ==
  /\ IsAdminUser(actor)
  /\ email \in BoardUsers
  /\ admin_emails' = admin_emails \cup {email}
  /\ response' = [ op |-> "add_admin_account", user |-> actor, post_id |-> 0,
                   request |-> email, status |-> 200 ]
  /\ UNCHANGED posts
  /\ BoardUnchanged

RemoveAdminAccountEmail(actor, email) ==
  /\ IsAdminUser(actor)
  /\ actor = AdminOwnerEmail
  /\ email # AdminOwnerEmail
  /\ email \notin EnvAdminEmails
  /\ email \in admin_emails
  /\ Cardinality(EnvAdminEmails \cup (admin_emails \ {email})) >= 1
  /\ admin_emails' = admin_emails \ {email}
  /\ response' = [ op |-> "remove_admin_account", user |-> actor, post_id |-> 0,
                   request |-> email, status |-> 200 ]
  /\ UNCHANGED posts
  /\ BoardUnchanged

NextBoard ==
  \/ \E email \in BoardUsers, body \in BoardBodies : CreatePost(email, body)
  \/ \E email \in BoardUsers, post_id \in 1..MaxPosts, body \in BoardBodies :
       UpdatePost(email, post_id, body)
  \/ \E actor \in BoardUsers, email \in BoardUsers : AddAdminAccountEmail(actor, email)
  \/ \E actor \in BoardUsers, email \in BoardUsers : RemoveAdminAccountEmail(actor, email)

SpecBoard == InitBoard /\ [][NextBoard]_vars


(***************************************************************************)
(* Comments of the board and the admin console's list of posts that wait   *)
(* for a reply: create_comment of routes_board.py and                      *)
(* list_pending_reply_posts of admin_service.py.  A category is the name   *)
(* of its BoardCategory member.  The content of a comment is the sequence  *)
(* of its pieces: a blank, the admin-reply prefix, or other text.  Posts   *)
(* are numbered in the order of their created_at.                          *)
(***************************************************************************)
MaxComments == 2

MaxStoredPosts == 2

BoardCategory == {"INQUIRY", "LEGACY_INQUIRY", "FREE", "TIP", "FEEDBACK"}

\* _ADMIN_REPLY_PREFIX, the bracketed Korean word for "admin reply"
AdminReplyPrefix == "[admin-reply]"

Blank == " "

CommentContents ==
  { <<>>,
    <<"text">>,
    <<AdminReplyPrefix, "text">>,
    <<Blank, AdminReplyPrefix, "text">>,
    <<"text", AdminReplyPrefix>> }

\* limit of GET /admin/board/pending-replies: 1..500, 100 when not given
PendingLimits == {1, 100}

RECURSIVE LStrip(_)
LStrip(content) ==
  IF content # <<>> /\ content[1] = Blank THEN LStrip(Tail(content)) ELSE content

RECURSIVE RStrip(_)
RStrip(content) ==
  IF content # <<>> /\ content[Len(content)] = Blank
    THEN RStrip(SubSeq(content, 1, Len(content) - 1))
    ELSE content

\* str.strip()
Strip(content) == RStrip(LStrip(content))

\* str.startswith(prefix)
StartsWith(content, prefix) == content # <<>> /\ content[1] = prefix

IsInquiryOrFeedback_NoLegacy(value) == value \in {"INQUIRY", "FEEDBACK"}

IsInquiryOrFeedback(value) == value \in {"INQUIRY", "LEGACY_INQUIRY", "FEEDBACK"}

CreateBoardComment(table, post_id, author_id, content) ==
  Append(table, [ id |-> Len(table) + 1, post_id |-> post_id,
                  author_id |-> author_id, content |-> content ])

ListBoardComments(table, post_id) == SelectSeq(table, LAMBDA c : c.post_id = post_id)

\* Status of POST /board/posts/{post_id}/comments.  CommentStr has
\* min_length 1: an empty content is rejected before the handler runs.
CreateCommentStatus(email, post_id, content) ==
  LET row == GetBoardPostById(posts, post_id)
      is_admin_reply == StartsWith(Strip(content), AdminReplyPrefix)
  IN  IF content = <<>> THEN 422
      ELSE IF row = NoUser THEN 404
      ELSE IF is_admin_reply /\ ~IsAdminUser(email) THEN 403
      ELSE IF is_admin_reply /\ ~IsInquiryOrFeedback(row.category) THEN 400
      ELSE 201

\* The ids of the posts the query of list_pending_reply_posts selects:
\* inquiry and feedback posts, newest first, at most limit of them.
RECURSIVE NewestFirst(_, _, _)
NewestFirst(table, i, limit) ==
  IF i = 0 \/ limit = 0 THEN <<>>
  ELSE IF IsInquiryOrFeedback(table[i].category)
    THEN <<i>> \o NewestFirst(table, i - 1, limit - 1)
    ELSE NewestFirst(table, i - 1, limit)

PendingReplyPostItem(table, post_id) ==
  [ post_id |-> post_id,
    category |-> IF table[post_id].category = "LEGACY_INQUIRY" THEN "INQUIRY"
                 ELSE table[post_id].category ]

ListPendingReplyPosts_AnyComment(table, cmts, admin_ids, limit) ==
  LET selected == NewestFirst(table, Len(table), limit)
      Answered(post_id) == \E i \in 1..Len(cmts) : cmts[i].post_id = post_id
      pending == SelectSeq(selected, LAMBDA post_id : ~Answered(post_id))
  IN  [ i \in 1..Len(pending) |-> PendingReplyPostItem(table, pending[i]) ]

ListPendingReplyPosts(table, cmts, admin_ids, limit) ==
  LET selected == NewestFirst(table, Len(table), limit)
      Answered(post_id) ==
        \E i \in 1..Len(cmts) : cmts[i].post_id = post_id /\ cmts[i].author_id \in admin_ids
      pending == SelectSeq(selected, LAMBDA post_id : ~Answered(post_id))
  IN  [ i \in 1..Len(pending) |-> PendingReplyPostItem(table, pending[i]) ]

\* Rows of board_post found in the database: posts of user3, of any
\* categories.
StoredCategoryPosts ==
  UNION { { [ i \in 1..n |->
                [ id |-> i, author_id |-> "user3@example.com", category |-> cats[i],
                  is_notice |-> FALSE, is_mental_health_post |-> FALSE ] ]
            : cats \in [1..n -> BoardCategory] }
          : n \in 0..MaxStoredPosts }

InitComments ==
  /\ DashIdle
  /\ dashboards = <<>>
  /\ phq9_scores = <<>>
  /\ phq9_result = <<>>
  /\ users = <<>>
  /\ inflight = {}
  /\ login_events = <<>>
  /\ response = <<>>
  /\ posts \in StoredCategoryPosts
  /\ admin_emails = {}
  /\ python_sum = "left_to_right"
  /\ comments = <<>>
  /\ objects = <<>>

CommentsUnchanged ==
  UNCHANGED <<dashVars, dashboards, phq9_scores, phq9_result, users, inflight, login_events,
              posts, admin_emails, python_sum, objects>>

CreateComment(email, post_id, content) ==
  LET status == CreateCommentStatus(email, post_id, content) IN
  /\ response' = [ op |-> "create_comment", user |-> email, post_id |-> post_id,
                   request |-> content, status |-> status ]
  /\ IF status = 201
       THEN /\ Len(comments) < MaxComments
            /\ comments' = CreateBoardComment(comments, post_id, email, content)
       ELSE comments' = comments
  /\ CommentsUnchanged

\* GET /admin/board/pending-replies behind require_admin
AdminPendingReplies(actor, limit) ==
  /\ response' =
       IF ~IsAdminUser(actor)
         THEN [ op |-> "pending_replies", user |-> actor, post_id |-> 0,
                request |-> limit, status |-> 403, items |-> <<>> ]
         ELSE [ op |-> "pending_replies", user |-> actor, post_id |-> 0,
                request |-> limit, status |-> 200,
                items |-> ListPendingReplyPosts(posts, comments,
                                                EnvAdminEmails \cup admin_emails, limit) ]
  /\ UNCHANGED comments
  /\ CommentsUnchanged

\* The posts are created with the body the board tests send.
NextComments ==
  \/ \E email \in BoardUsers : CreatePost(email, [is_notice |-> FALSE])
  \/ \E email \in BoardUsers, post_id \in 1..MaxStoredPosts, content \in CommentContents :
       CreateComment(email, post_id, content)
  \/ \E actor \in BoardUsers, limit \in PendingLimits : AdminPendingReplies(actor, limit)

SpecComments == InitComments /\ [][NextComments]_vars


(***************************************************************************)
(* Python floats as IEEE-754 binary64 values, for the questions that the   *)
(* rounding of an operation decides.  A natural number of any size is the  *)
(* sequence of its base-2^14 digits, least significant first, without      *)
(* leading zeros.  A float is [s, e, m]: sign s, and magnitude m * 2^e     *)
(* with m of exactly 53 bits, or m = <<>> for 0.0.  Every operation        *)
(* computes the exact result and rounds it to nearest, ties to even.  The  *)
(* dashboard never leaves the normal range: no infinity, NaN, subnormal or *)
(* negative zero arises from its inputs.                                   *)
(***************************************************************************)
Limb == 16384

LimbBits == 14

RECURSIVE Pow2(_)
Pow2(k) == IF k = 0 THEN 1 ELSE 2 * Pow2(k - 1)

RECURSIVE BitLen(_)
BitLen(n) == IF n = 0 THEN 0 ELSE 1 + BitLen(n \div 2)

RECURSIVE NTrim(_)
NTrim(x) ==
    IF x = <<>> THEN <<>>
    ELSE IF x[Len(x)] = 0 THEN NTrim(SubSeq(x, 1, Len(x) - 1))
    ELSE x

RECURSIVE NFromInt(_)
NFromInt(n) == IF n = 0 THEN <<>> ELSE <<n % Limb>> \o NFromInt(n \div Limb)

Digit(x, i) == IF i <= Len(x) THEN x[i] ELSE 0

RECURSIVE NAddFrom(_, _, _, _)
NAddFrom(x, y, i, c) ==
    IF i > Len(x) /\ i > Len(y) THEN (IF c = 0 THEN <<>> ELSE <<c>>)
    ELSE LET t == Digit(x, i) + Digit(y, i) + c
         IN  <<t % Limb>> \o NAddFrom(x, y, i + 1, t \div Limb)

NAdd(x, y) == NTrim(NAddFrom(x, y, 1, 0))

\* x - y for x >= y
RECURSIVE NSubFrom(_, _, _, _)
NSubFrom(x, y, i, b) ==
    IF i > Len(x) THEN <<>>
    ELSE LET t == x[i] - Digit(y, i) - b
         IN  <<IF t < 0 THEN t + Limb ELSE t>>
               \o NSubFrom(x, y, i + 1, IF t < 0 THEN 1 ELSE 0)

NSub(x, y) == NTrim(NSubFrom(x, y, 1, 0))

RECURSIVE NCmpFrom(_, _, _)
NCmpFrom(x, y, i) ==
    IF i = 0 THEN 0
    ELSE IF x[i] < y[i] THEN -1
    ELSE IF x[i] > y[i] THEN 1
    ELSE NCmpFrom(x, y, i - 1)

\* -1, 0 or 1 as x is below, equal to or above y
NCmp(x, y) ==
    IF Len(x) < Len(y) THEN -1
    ELSE IF Len(x) > Len(y) THEN 1
    ELSE NCmpFrom(x, y, Len(x))

\* x * k + c for k < Limb
RECURSIVE NMulSmallFrom(_, _, _, _)
NMulSmallFrom(x, k, i, c) ==
    IF i > Len(x) THEN (IF c = 0 THEN <<>> ELSE <<c>>)
    ELSE LET p == x[i] * k + c
         IN  <<p % Limb>> \o NMulSmallFrom(x, k, i + 1, p \div Limb)

NMulSmall(x, k) == NTrim(NMulSmallFrom(x, k, 1, 0))

RECURSIVE NMulFrom(_, _, _)
NMulFrom(x, y, j) ==
    IF j > Len(y) THEN <<>>
    ELSE NAddFrom(NMulSmallFrom(x, y[j], 1, 0), <<0>> \o NMulFrom(x, y, j + 1), 1, 0)

NMul(x, y) == NTrim(NMulFrom(x, y, 1))

\* x * 2^k
NShl(x, k) ==
    IF x = <<>> THEN <<>>
    ELSE [i \in 1..(k \div LimbBits) |-> 0] \o NMulSmall(x, Pow2(k % LimbBits))

\* floor(x / d) for d < Limb, digits i..1 with r carried in from above
RECURSIVE NDivSmallFrom(_, _, _, _)
NDivSmallFrom(x, d, i, r) ==
    IF i = 0 THEN <<>>
    ELSE LET cur == r * Limb + x[i]
         IN  NDivSmallFrom(x, d, i - 1, cur % d) \o <<cur \div d>>

NDivSmall(x, d) == NTrim(NDivSmallFrom(x, d, Len(x), 0))

\* floor(x / 2^k)
NShr(x, k) ==
    IF k \div LimbBits >= Len(x) THEN <<>>
    ELSE NDivSmall(SubSeq(x, k \div LimbBits + 1, Len(x)), Pow2(k % LimbBits))

NBitLen(x) == IF x = <<>> THEN 0 ELSE LimbBits * (Len(x) - 1) + BitLen(x[Len(x)])

NIsOdd(x) == x # <<>> /\ x[1] % 2 = 1

\* The digit d with y * d <= r < y * (d + 1), known to lie in lo..(hi - 1)
RECURSIVE NDigit(_, _, _, _)
NDigit(r, y, lo, hi) ==
    IF hi - lo = 1 THEN lo
    ELSE LET mid == (lo + hi) \div 2
         IN  IF NCmp(NMulSmall(y, mid), r) <= 0 THEN NDigit(r, y, mid, hi)
             ELSE NDigit(r, y, lo, mid)

\* <<digits of floor(r * Limb^n / y), remainder>> for r < y, the digits most
\* significant first
RECURSIVE NDivDigits(_, _, _)
NDivDigits(r, y, n) ==
    LET Below(rr, d, rest) == << <<d>> \o rest[1], rest[2] >>
        After(rr, d) == Below(rr, d, NDivDigits(NSub(rr, NMulSmall(y, d)), y, n - 1))
        Shifted(rr) == After(rr, NDigit(rr, y, 0, Limb))
    IN  IF n = 0 THEN <<<<>>, r>>
        ELSE Shifted(IF r = <<>> THEN <<>> ELSE <<0>> \o r)

Reverse(x) == [i \in 1..Len(x) |-> x[Len(x) + 1 - i]]

Zero64 == [s |-> 0, e |-> 0, m |-> <<>>]

IsZero64(a) == a.m = <<>>

\* A rounded-up mantissa of 54 bits is 2^53: one more shift
RoundCarried(s, e, m1) ==
    IF NBitLen(m1) = 54 THEN [s |-> s, e |-> e + 1, m |-> NShr(m1, 1)]
    ELSE [s |-> s, e |-> e, m |-> m1]

\* q or q + 1 as the half bit and the bits below it say
RoundUp(s, e, q, half, rest) ==
    RoundCarried(s, e, IF half /\ (rest \/ NIsOdd(q)) THEN NAdd(q, <<1>>) ELSE q)

\* q2 is n without its lowest sh - 1 bits: 53 bits and the half bit
RoundHalf(s, n, e, sticky, sh, q2) ==
    RoundUp(s, e + sh, NShr(q2, 1), NIsOdd(q2), sticky \/ NShl(q2, sh - 1) # n)

\* n has len bits: padded to 53 bits, or cut to 53 bits and rounded
RoundLength(s, n, e, sticky, len) ==
    IF len <= 53 THEN [s |-> s, e |-> e - (53 - len), m |-> NShl(n, 53 - len)]
    ELSE RoundHalf(s, n, e, sticky, len - 53, NShr(n, len - 54))

\* The float nearest to (-1)^s * n * 2^e, ties to even; sticky says that the
\* exact value lies strictly above n * 2^e and below (n + 1) * 2^e.
Round64(s, n, e, sticky) ==
    IF n = <<>> THEN Zero64 ELSE RoundLength(s, n, e, sticky, NBitLen(n))

\* float(n) of an int
F(n) == Round64(IF n < 0 THEN 1 ELSE 0, NFromInt(IF n < 0 THEN -n ELSE n), 0, FALSE)

FNeg(a) == IF IsZero64(a) THEN a ELSE [a EXCEPT !.s = 1 - a.s]

FAbs(a) == [a EXCEPT !.s = 0]

\* x * 2^e and y * 2^e of signs sa and sb added, c the comparison of x and y
AddCompared(sa, sb, e, x, y, c) ==
    IF sa # sb /\ c = 0 THEN Zero64
    ELSE Round64(IF sa = sb \/ c > 0 THEN sa ELSE sb,
                 IF sa = sb THEN NAdd(x, y)
                 ELSE IF c > 0 THEN NSub(x, y) ELSE NSub(y, x),
                 e, FALSE)

\* The mantissas x and y are both scaled by 2^e
AddAligned(sa, sb, e, x, y) == AddCompared(sa, sb, e, x, y, NCmp(x, y))

\* e is the smaller of the two exponents
AddFrom(a, b, e) == AddAligned(a.s, b.s, e, NShl(a.m, a.e - e), NShl(b.m, b.e - e))

FAdd(a, b) ==
    IF IsZero64(a) THEN b
    ELSE IF IsZero64(b) THEN a
    ELSE AddFrom(a, b, IF a.e < b.e THEN a.e ELSE b.e)

FSub(a, b) == FAdd(a, FNeg(b))

FMul(a, b) ==
    IF IsZero64(a) \/ IsZero64(b) THEN Zero64
    ELSE Round64((a.s + b.s) % 2, NMul(a.m, b.m), a.e + b.e, FALSE)

\* lead is the integer bit of the quotient of the mantissas, qr its 56
\* fractional bits and the remainder
DivRounded(a, b, lead, qr) ==
    Round64((a.s + b.s) % 2, NTrim(Reverse(<<lead>> \o qr[1])),
            a.e - b.e - 56, qr[2] # <<>>)

\* ge says that the mantissa of a is at least that of b
DivLeading(a, b, ge) ==
    DivRounded(a, b, IF ge THEN 1 ELSE 0,
               NDivDigits(IF ge THEN NSub(a.m, b.m) ELSE a.m, b.m, 4))

\* a / b for b # 0.0: the quotient of the mantissas to 56 fractional bits,
\* then one rounding
FDiv(a, b) ==
    IF IsZero64(a) THEN Zero64 ELSE DivLeading(a, b, NCmp(a.m, b.m) >= 0)

\* The literal or quotient n / d of two ints
FFrac(n, d) == FDiv(F(n), F(d))

\* -1, 0 or 1 as |a| is below, equal to or above |b|
MagCmp(a, b) ==
    IF IsZero64(a) THEN (IF IsZero64(b) THEN 0 ELSE -1)
    ELSE IF IsZero64(b) THEN 1
    ELSE IF a.e < b.e THEN -1
    ELSE IF a.e > b.e THEN 1
    ELSE NCmp(a.m, b.m)

FLt(a, b) ==
    IF a.s = 1 /\ b.s = 0 THEN TRUE
    ELSE IF a.s = 0 /\ b.s = 1 THEN FALSE
    ELSE IF a.s = 0 THEN MagCmp(a, b) < 0
    ELSE MagCmp(a, b) > 0

FLe(a, b) == ~FLt(b, a)

FGe(a, b) == ~FLt(a, b)

\* Python's min(a, b) and max(a, b)
FMin(a, b) == IF FLt(b, a) THEN b ELSE a

FMax(a, b) == IF FLt(a, b) THEN b ELSE a

(***************************************************************************)
(* build_user_weekly_dashboard in binary64.  The stored rows are those of  *)
(* the model above: a stored number is the decimal the client sent, and    *)
(* float(...) of it is the nearest binary64 value.                         *)
(***************************************************************************)
FNone == [none |-> TRUE]

IsFNone(x) == "none" \in DOMAIN x

\* float(value) of a stored number
ToFloat(q) == IF IsNone(q) THEN FNone ELSE FFrac(q[1], q[2])

\* sum(values) as CPython up to 3.11 computes it: 0 + values[0], then one
\* rounded addition per element, in list order.
RECURSIVE SumLeftToRight(_, _, _)
SumLeftToRight(values, i, total) ==
    IF i > Len(values) THEN total
    ELSE SumLeftToRight(values, i + 1, FAdd(total, values[i]))

\* The rounding error of t = total + x, added to the compensation c
Compensation(total, x, t, c) ==
    IF MagCmp(total, x) >= 0 THEN FAdd(c, FAdd(FSub(total, t), x))
    ELSE FAdd(c, FAdd(FSub(x, t), total))

\* sum(values) as CPython from 3.12 computes it: the running total and a
\* compensation that collects the rounding errors, added at the end.
RECURSIVE SumCompensated(_, _, _, _)
SumCompensated(values, i, total, c) ==
    IF i > Len(values) THEN (IF IsZero64(c) THEN total ELSE FAdd(total, c))
    ELSE SumCompensated(values, i + 1, FAdd(total, values[i]),
                        Compensation(total, values[i], FAdd(total, values[i]), c))

SumBuilds == {"left_to_right", "compensated"}

\* sum(values) of a non-empty list of floats
Sum64(values) ==
    IF python_sum = "left_to_right" THEN SumLeftToRight(values, 2, values[1])
    ELSE SumCompensated(values, 2, values[1], Zero64)

Mean64(values) ==
    IF values = <<>> THEN FNone
    ELSE FDiv(Sum64(values), F(Len(values)))

RECURSIVE WeightedFold64(_, _, _)
WeightedFold64(pairs, numer, denom) ==
    IF pairs = <<>> THEN <<numer, denom>>
    ELSE LET value == pairs[1][1]
             weight == pairs[1][2]
         IN  IF IsFNone(value)
             THEN WeightedFold64(Tail(pairs), numer, denom)
             ELSE WeightedFold64(Tail(pairs), FAdd(numer, FMul(value, weight)),
                                 FAdd(denom, weight))

WeightedScore64(pairs) ==
    LET Of(nd) == IF IsZero64(nd[2]) THEN FNone ELSE FDiv(nd[1], nd[2])
    IN  Of(WeightedFold64(pairs, Zero64, Zero64))

F25 == F(25)

F50 == F(50)

F75 == F(75)

F100 == F(100)

SeverityBucket64(score) ==
    IF FLt(score, F25) THEN "minimal"
    ELSE IF FLt(score, F50) THEN "mild"
    ELSE IF FLt(score, F75) THEN "moderate"
    ELSE "severe"

F7p5 == FFrac(15, 2)

F4p5 == FFrac(9, 2)

SleepPenalty64(sleep_hours) ==
    IF IsFNone(sleep_hours) THEN FNone
    ELSE LET diff == FAbs(FSub(sleep_hours, F7p5))
         IN  FMin(F100, FMul(FDiv(diff, F4p5), F100))

F1 == F(1)

CompletionRate64(row) ==
    LET ct == ParseCheckinNote(row.note)
        completed == ct[1]
        total == ct[2]
    IN  IF total > 0 THEN FMin(F1, FFrac(completed, total))
        ELSE IF row.exercised THEN F1
        ELSE Zero64

HasFloat(s) == SelectSeq(s, LAMBDA x : ~IsFNone(x))

\* total += float(value) over distortion.values(), from 0.0
RECURSIVE DistortionTotal64(_, _, _)
DistortionTotal64(values, i, total) ==
    IF i > Len(values) THEN total
    ELSE DistortionTotal64(values, i + 1, FAdd(total, F(values[i])))

DayData64(cks, chs, asms, d) ==
    LET c == OnDay(cks, d)
        h == OnDay(chs, d)
        a == OnDay(asms, d)
    IN  [ mood |-> MapSeq(c, LAMBDA row : F(row.mood_score)),
          sleep_hours |-> HasFloat(MapSeq(c, LAMBDA row : ToFloat(row.sleep_hours))),
          challenge_completion_rate |-> MapSeq(c, CompletionRate64),
          distress |->
              HasFloat(MapSeq(h, LAMBDA row : ToFloat(row.extracted.distress_0_10))),
          rumination |->
              HasFloat(MapSeq(h, LAMBDA row : ToFloat(row.extracted.rumination_0_10))),
          sleep_difficulty |->
              HasFloat(MapSeq(h, LAMBDA row : ToFloat(row.extracted.sleep_difficulty_0_10))),
          distortion_total |->
              MapSeq(SelectSeq(h, LAMBDA row : row.extracted.distortion.isdict),
                     LAMBDA row : DistortionTotal64(row.extracted.distortion.values,
                                                    1, Zero64)),
          phq_total |-> MapSeq(a, LAMBDA row : F(row.total_score)) ]

F10 == F(10)

F12 == F(12)

F6 == F(6)

F27 == F(27)

Scale10x64(x) == IF IsFNone(x) THEN FNone ELSE FMul(x, F10)

Clip64(x) == FMax(Zero64, FMin(F100, x))

OrDefault64(x) == IF ~IsFNone(x) THEN x ELSE F50

CarryAfter64(dd, carry) ==
    LET Of(phq) == IF ~IsFNone(phq) THEN FMul(FDiv(phq, F27), F100) ELSE carry
    IN  Of(Mean64(dd.phq_total))

Adjust64(score, challenge_completion, factor) ==
    IF ~IsFNone(challenge_completion)
    THEN FSub(score, FMul(challenge_completion, factor))
    ELSE score

W45 == FFrac(45, 100)

W25 == FFrac(25, 100)

W20 == FFrac(2, 10)

W10 == FFrac(1, 10)

W60 == FFrac(6, 10)

W40 == FFrac(4, 10)

DepPairs64(carry_phq_scaled, mood_inverse, rum_scaled, distortion_scaled) ==
    << <<carry_phq_scaled, W45>>,
       <<mood_inverse, W25>>,
       <<rum_scaled, W20>>,
       <<distortion_scaled, W10>> >>

AnxPairs64(distress_scaled, rum_scaled, mood_inverse, distortion_scaled) ==
    << <<distress_scaled, W45>>,
       <<rum_scaled, W25>>,
       <<mood_inverse, W20>>,
       <<distortion_scaled, W10>> >>

InsPairs64(sleep_diff_scaled, sleep_pen) ==
    << <<sleep_diff_scaled, W60>>,
       <<sleep_pen, W40>> >>

\* The three scores of a day from its scaled signals: weighted score,
\* default, challenge adjustment and clipping
DayLocalsScored64(d, carry_phq_scaled, challenge_completion, scaled) ==
    [ date |-> d,
      carry_phq_scaled |-> carry_phq_scaled,
      dep |-> Clip64(Adjust64(
                  OrDefault64(WeightedScore64(
                      DepPairs64(carry_phq_scaled, scaled.mood_inverse,
                                 scaled.rum_scaled, scaled.distortion_scaled))),
                  challenge_completion, F12)),
      anx |-> Clip64(Adjust64(
                  OrDefault64(WeightedScore64(
                      AnxPairs64(scaled.distress_scaled, scaled.rum_scaled,
                                 scaled.mood_inverse, scaled.distortion_scaled))),
                  challenge_completion, F10)),
      ins |-> Clip64(Adjust64(
                  OrDefault64(WeightedScore64(
                      InsPairs64(scaled.sleep_diff_scaled, scaled.sleep_pen))),
                  challenge_completion, F6)) ]

\* The scaled signals of a day from the means of its lists
DayLocalsScaled64(d, carry_phq_scaled, means) ==
    DayLocalsScored64(d, carry_phq_scaled, means.challenge_completion,
        [ mood_inverse |->
              IF IsFNone(means.m) THEN FNone ELSE FMul(FSub(F10, means.m), F10),
          distress_scaled |-> Scale10x64(means.distress),
          rum_scaled |-> Scale10x64(means.rumination),
          sleep_diff_scaled |-> Scale10x64(means.sleep_diff),
          distortion_scaled |->
              IF IsFNone(means.distortion_total) THEN FNone
              ELSE FMin(F100, FMul(means.distortion_total, F12)),
          sleep_pen |-> SleepPenalty64(means.sleep_hours) ])

DayLocals64(d, dd, carry_in) ==
    DayLocalsScaled64(d, CarryAfter64(dd, carry_in),
        [ m |-> Mean64(dd.mood),
          sleep_hours |-> Mean64(dd.sleep_hours),
          distress |-> Mean64(dd.distress),
          rumination |-> Mean64(dd.rumination),
          sleep_diff |-> Mean64(dd.sleep_difficulty),
          distortion_total |-> Mean64(dd.distortion_total),
          challenge_completion |-> Mean64(dd.challenge_completion_rate) ])

RECURSIVE DayLoop64(_, _, _, _, _)
DayLoop64(cks, chs, asms, days, carry) ==
    LET Then(loc) ==
            <<loc>> \o DayLoop64(cks, chs, asms, Tail(days), loc.carry_phq_scaled)
    IN  IF days = <<>> THEN <<>>
        ELSE Then(DayLocals64(days[1], DayData64(cks, chs, asms, days[1]), carry))

DayScores64(cks, chs, asms) ==
    MapSeq(DayLoop64(cks, chs, asms, SortedSeq(DayKeys(cks, chs, asms)), FNone),
           DayScore)

\* Python's `x or 50.0`
Or50x64(x) == IF IsFNone(x) \/ IsZero64(x) THEN F50 ELSE x

F3 == F(3)

WeekRow64(week_start, items) ==
    LET Row(dep_week, anx_week, ins_week) ==
            [ week_start_date |-> week_start,
              dep_week_pred_0_100 |-> dep_week,
              anx_week_pred_0_100 |-> anx_week,
              ins_week_pred_0_100 |-> ins_week,
              symptom_composite_pred_0_100 |->
                  FDiv(FAdd(FAdd(dep_week, anx_week), ins_week), F3),
              active_days |-> Len(items) ]
    IN  Row(Or50x64(Mean64(MapSeq(items, LAMBDA x : x.dep))),
            Or50x64(Mean64(MapSeq(items, LAMBDA x : x.anx))),
            Or50x64(Mean64(MapSeq(items, LAMBDA x : x.ins))))

WeeklyRollup64(scores) ==
    LET weeks == SortedSeq({WeekStart(scores[i].date) : i \in 1..Len(scores)})
    IN  MapSeq(weeks, LAMBDA w : WeekRow64(w, WeekItems(scores, w)))

Delta64(prev, cur) == IF IsFNone(prev) THEN FNone ELSE FSub(cur, prev)

F5 == F(5)

F65 == F(65)

\* Python's `(delta or 0) >= 5`
Jump64(delta) == IF IsFNone(delta) THEN FALSE ELSE FGe(delta, F5)

AlertRow64(row, prev_dep, prev_anx, prev_ins) ==
    LET dep == row.dep_week_pred_0_100
        anx == row.anx_week_pred_0_100
        ins == row.ins_week_pred_0_100
        Alerted(dep_week_delta, anx_week_delta, ins_week_delta,
                dep_severity, anx_severity, ins_severity,
                rule_week_delta_worsen, rule_any_severe, rule_composite_high) ==
            LET score == RiskScore(BoolInt(rule_week_delta_worsen),
                                   BoolInt(rule_any_severe),
                                   BoolInt(rule_composite_high))
                reasons ==
                    (IF rule_week_delta_worsen THEN <<"worsening_delta">> ELSE <<>>)
                      \o (IF rule_any_severe THEN <<"severe_band">> ELSE <<>>)
                      \o (IF rule_composite_high THEN <<"high_composite">> ELSE <<>>)
            IN  [ week_start_date |-> row.week_start_date,
                  dep_week_pred_0_100 |-> dep,
                  anx_week_pred_0_100 |-> anx,
                  ins_week_pred_0_100 |-> ins,
                  symptom_composite_pred_0_100 |-> row.symptom_composite_pred_0_100,
                  active_days |-> row.active_days,
                  dep_week_delta |-> dep_week_delta,
                  anx_week_delta |-> anx_week_delta,
                  ins_week_delta |-> ins_week_delta,
                  dep_severity |-> dep_severity,
                  anx_severity |-> anx_severity,
                  ins_severity |-> ins_severity,
                  rule_week_delta_worsen |-> BoolInt(rule_week_delta_worsen),
                  rule_any_severe |-> BoolInt(rule_any_severe),
                  rule_composite_high |-> BoolInt(rule_composite_high),
                  alert_risk_score |-> score,
                  alert_flag |-> BoolInt(score >= 2),
                  alert_level |-> AlertLevel(score),
                  alert_reason_codes |-> Join(reasons) ]
        Banded(dep_week_delta, anx_week_delta, ins_week_delta,
               dep_severity, anx_severity, ins_severity) ==
            Alerted(dep_week_delta, anx_week_delta, ins_week_delta,
                    dep_severity, anx_severity, ins_severity,
                    Jump64(dep_week_delta) \/ Jump64(anx_week_delta)
                      \/ Jump64(ins_week_delta),
                    \E x \in {dep_severity, anx_severity, ins_severity} : x = "severe",
                    FGe(row.symptom_composite_pred_0_100, F65))
    IN  Banded(Delta64(prev_dep, dep), Delta64(prev_anx, anx), Delta64(prev_ins, ins),
               SeverityBucket64(dep), SeverityBucket64(anx), SeverityBucket64(ins))

RECURSIVE AlertLoop64(_, _, _, _)
AlertLoop64(weekly, prev_dep, prev_anx, prev_ins) ==
    IF weekly = <<>> THEN <<>>
    ELSE LET row == weekly[1]
         IN  <<AlertRow64(row, prev_dep, prev_anx, prev_ins)>>
               \o AlertLoop64(Tail(weekly), row.dep_week_pred_0_100,
                              row.anx_week_pred_0_100, row.ins_week_pred_0_100)

\* The list build_user_weekly_dashboard returns for the rows as fetched.
Dashboard64(cks, chs, asms) ==
    IF DayKeys(cks, chs, asms) = {} THEN <<>>
    ELSE AlertLoop64(WeeklyRollup64(DayScores64(cks, chs, asms)), FNone, FNone, FNone)

(***************************************************************************)
(* The dashboard over the rows as the database returns them.  The three    *)
(* SELECTs of build_user_weekly_dashboard have no ORDER BY, so each call   *)
(* sees the rows of a table in an order of the database's choosing.        *)
(***************************************************************************)
MaxFetched == 3

\* sleep_hours of a check-in: 6.1, 6.2 and 6.3 hours
SleepInputs == { <<61, 10>>, <<62, 10>>, <<63, 10>> }

FetchedCheckins ==
    { [ created_at |-> 0, mood_score |-> 5, sleep_hours |-> h, exercised |-> FALSE,
        note |-> [has |-> TRUE, challenge_completed_count |-> 0,
                  challenge_total_count |-> 0] ] : h \in SleepInputs }

CheckinTables == UNION { [1..n -> FetchedCheckins] : n \in 1..MaxFetched }

FetchOrders(n) == { p \in [1..n -> 1..n] : \A i, j \in 1..n : p[i] = p[j] => i = j }

Fetched(table, p) == [i \in 1..Len(table) |-> table[p[i]]]

InitFetch ==
    /\ today = 0
    /\ checkins \in CheckinTables
    /\ chats = <<>>
    /\ assessments = <<>>
    /\ built = FALSE
    /\ day_locals = <<>>
    /\ day_scores = <<>>
    /\ rows = <<>>
    /\ dashboards = <<>>
    /\ phq9_scores = <<>>
    /\ phq9_result = <<>>
    /\ users = <<>>
    /\ inflight = {}
    /\ login_events = <<>>
    /\ response = <<>>
    /\ posts = <<>>
    /\ admin_emails = {}
    /\ python_sum \in SumBuilds
    /\ comments = <<>>
    /\ objects = <<>>

BuildFetchedDashboard ==
    /\ \E pc \in FetchOrders(Len(checkins)), ph \in FetchOrders(Len(chats)),
          pa \in FetchOrders(Len(assessments)) :
         rows' = Dashboard64(Fetched(checkins, pc), Fetched(chats, ph),
                             Fetched(assessments, pa))
    /\ built' = TRUE
    /\ UNCHANGED <<today, checkins, chats, assessments, day_locals, day_scores>>
    /\ UNCHANGED otherVars

NextFetch == BuildFetchedDashboard

SpecFetch == InitFetch /\ [][NextFetch]_vars


(***************************************************************************)
(* Definitions shared by the properties below.  They are written from the  *)
(* stored events and from plain sums, not from the operators above.        *)
(***************************************************************************)
Idx(s) == 1..Len(s)

InRange(x) == ~IsNone(x) /\ RLe(R(0), x) /\ RLe(x, R(100))

\* The member days of a weekly record, as indices of day_scores.
MemberDays(row) ==
    {i \in Idx(day_scores) :
        /\ row.week_start_date <= day_scores[i].date
        /\ day_scores[i].date < row.week_start_date + 7}

RECURSIVE SumDep(_)
SumDep(I) ==
    IF I = {} THEN R(0)
    ELSE LET i == CHOOSE j \in I : TRUE
         IN  RAdd(day_scores[i].dep, SumDep(I \ {i}))

RECURSIVE SumAnx(_)
SumAnx(I) ==
    IF I = {} THEN R(0)
    ELSE LET i == CHOOSE j \in I : TRUE
         IN  RAdd(day_scores[i].anx, SumAnx(I \ {i}))

RECURSIVE SumIns(_)
SumIns(I) ==
    IF I = {} THEN R(0)
    ELSE LET i == CHOOSE j \in I : TRUE
         IN  RAdd(day_scores[i].ins, SumIns(I \ {i}))

\* Which signals the stored events define on day d.
HasCheckin(d) == \E i \in Idx(checkins) : checkins[i].created_at = d

HasSleepHours(d) ==
    \E i \in Idx(checkins) :
        checkins[i].created_at = d /\ ~IsNone(checkins[i].sleep_hours)

HasDistress(d) ==
    \E i \in Idx(chats) :
        chats[i].created_at = d /\ ~IsNone(chats[i].extracted.distress_0_10)

HasRumination(d) ==
    \E i \in Idx(chats) :
        chats[i].created_at = d /\ ~IsNone(chats[i].extracted.rumination_0_10)

HasSleepDifficulty(d) ==
    \E i \in Idx(chats) :
        chats[i].created_at = d /\ ~IsNone(chats[i].extracted.sleep_difficulty_0_10)

HasDistortion(d) ==
    \E i \in Idx(chats) :
        chats[i].created_at = d /\ chats[i].extracted.distortion.isdict

HasQuestionnaire(d) == \E i \in Idx(assessments) : assessments[i].created_at = d

QuestionnaireDaysUpTo(d) ==
    {assessments[i].created_at : i \in {j \in Idx(assessments) :
                                           assessments[j].created_at <= d}}

RECURSIVE TotalOn(_, _)
TotalOn(I, d) ==
    IF I = {} THEN 0
    ELSE LET i == CHOOSE j \in I : TRUE
         IN  (IF assessments[i].created_at = d THEN assessments[i].total_score ELSE 0)
               + TotalOn(I \ {i}, d)

CountOn(d) == Cardinality({i \in Idx(assessments) : assessments[i].created_at = d})

\* (mean of the questionnaire totals of day q / 27) * 100
QuestionnairePercent(q) == Frac(TotalOn(Idx(assessments), q) * 100, CountOn(q) * 27)

ExpectedCarry(d) ==
    LET qs == QuestionnaireDaysUpTo(d)
    IN  IF qs = {} THEN None
        ELSE QuestionnairePercent(CHOOSE q \in qs : \A r \in qs : r <= q)

\* One term of a blend, with its weight in hundredths.
TermValue(v, w) == IF IsNone(v) THEN R(0) ELSE RMul(v, R(w))

TermWeight(v, w) == IF IsNone(v) THEN 0 ELSE w

DepWeight(loc) ==
    TermWeight(loc.carry_phq_scaled, 45) + TermWeight(loc.mood_inverse, 25)
      + TermWeight(loc.rum_scaled, 20) + TermWeight(loc.distortion_scaled, 10)

DepNumer(loc) ==
    RAdd(RAdd(TermValue(loc.carry_phq_scaled, 45), TermValue(loc.mood_inverse, 25)),
         RAdd(TermValue(loc.rum_scaled, 20), TermValue(loc.distortion_scaled, 10)))

AnxWeight(loc) ==
    TermWeight(loc.distress_scaled, 45) + TermWeight(loc.rum_scaled, 25)
      + TermWeight(loc.mood_inverse, 20) + TermWeight(loc.distortion_scaled, 10)

AnxNumer(loc) ==
    RAdd(RAdd(TermValue(loc.distress_scaled, 45), TermValue(loc.rum_scaled, 25)),
         RAdd(TermValue(loc.mood_inverse, 20), TermValue(loc.distortion_scaled, 10)))

InsWeight(loc) ==
    TermWeight(loc.sleep_diff_scaled, 60) + TermWeight(loc.sleep_pen, 40)

InsNumer(loc) ==
    RAdd(TermValue(loc.sleep_diff_scaled, 60), TermValue(loc.sleep_pen, 40))

\* The terms of the trace are defined exactly when the day's events define them.
TermsFollowEvents(loc) ==
    /\ ~IsNone(loc.carry_phq_scaled) <=> QuestionnaireDaysUpTo(loc.date) # {}
    /\ ~IsNone(loc.mood_inverse) <=> HasCheckin(loc.date)
    /\ ~IsNone(loc.rum_scaled) <=> HasRumination(loc.date)
    /\ ~IsNone(loc.distortion_scaled) <=> HasDistortion(loc.date)
    /\ ~IsNone(loc.distress_scaled) <=> HasDistress(loc.date)
    /\ ~IsNone(loc.sleep_diff_scaled) <=> HasSleepDifficulty(loc.date)
    /\ ~IsNone(loc.sleep_pen) <=> HasSleepHours(loc.date)

(***************************************************************************)
(* C1.  In every populated week, dep_week, anx_week and ins_week are the   *)
(* unweighted arithmetic means of the member days' dep, anx and ins.       *)
(* The code replaces a mean of exactly 0.0 by 50.0 (`_mean(...) or 50.0`), *)
(* so this statement is violated.                                          *)
(***************************************************************************)
C1_WeeklyMeanOfMemberDays ==
    built =>
        \A k \in Idx(rows) :
            LET I == MemberDays(rows[k])
            IN  /\ I # {}
                /\ rows[k].dep_week_pred_0_100 = RDiv(SumDep(I), R(Cardinality(I)))
                /\ rows[k].anx_week_pred_0_100 = RDiv(SumAnx(I), R(Cardinality(I)))
                /\ rows[k].ins_week_pred_0_100 = RDiv(SumIns(I), R(Cardinality(I)))

(***************************************************************************)
(* C2.  In the ascending pass over the event days, the questionnaire term  *)
(* of a day's dep blend is (mean total of the latest questionnaire day on  *)
(* or before it / 27) * 100: held over later days without a questionnaire, *)
(* replaced by a newer questionnaire day, undefined before the first one;  *)
(* and the day's dep blend is computed with exactly that term.             *)
(***************************************************************************)
C2_CarryForward ==
    built =>
        \A i \in Idx(day_locals) :
            LET loc == day_locals[i]
                expected == [loc EXCEPT !.carry_phq_scaled = ExpectedCarry(loc.date)]
            IN  /\ loc.carry_phq_scaled = ExpectedCarry(loc.date)
                /\ \A j \in Idx(day_locals) : i < j => loc.date < day_locals[j].date
                /\ DepWeight(expected) > 0 =>
                       loc.dep_blend = RDiv(DepNumer(expected), R(DepWeight(expected)))
                /\ DepWeight(expected) = 0 => IsNone(loc.dep_blend)

\* A day before the first questionnaire (term undefined), a questionnaire day,
\* and a later day without a questionnaire that still uses that day's value.
C2_Witness ==
    /\ built
    /\ \E i, j, k \in Idx(day_locals) :
         /\ i < j /\ j < k
         /\ IsNone(day_locals[i].carry_phq_scaled)
         /\ HasQuestionnaire(day_locals[j].date)
         /\ ~HasQuestionnaire(day_locals[k].date)
         /\ ~IsNone(day_locals[k].carry_phq_scaled)
         /\ day_locals[k].carry_phq_scaled = day_locals[j].carry_phq_scaled
         /\ ~IsNone(day_locals[k].dep_blend)

(***************************************************************************)
(* C3.  For dep, anx and ins of every day, the value before the challenge  *)
(* adjustment is sum(weight * value) / sum(weight) over the terms whose    *)
(* signal the day's events define (weights 45/25/20/10, 45/25/20/10 and    *)
(* 60/40 hundredths); an undefined term adds nothing to either sum.        *)
(***************************************************************************)
C3_RenormalizedBlend ==
    built =>
        \A i \in Idx(day_locals) :
            LET loc == day_locals[i]
            IN  /\ TermsFollowEvents(loc)
                /\ DepWeight(loc) > 0 =>
                       loc.dep0 = RDiv(DepNumer(loc), R(DepWeight(loc)))
                /\ AnxWeight(loc) > 0 =>
                       loc.anx0 = RDiv(AnxNumer(loc), R(AnxWeight(loc)))
                /\ InsWeight(loc) > 0 =>
                       loc.ins0 = RDiv(InsNumer(loc), R(InsWeight(loc)))

\* A day whose dep and anx blends have defined and undefined terms side by side,
\* so that renormalisation changes the result.
C3_Witness ==
    /\ built
    /\ \E i \in Idx(day_locals) :
         LET loc == day_locals[i]
         IN  /\ ~IsNone(loc.carry_phq_scaled)
             /\ ~IsNone(loc.mood_inverse)
             /\ IsNone(loc.rum_scaled)
             /\ IsNone(loc.distress_scaled)
             /\ DepWeight(loc) = 70
             /\ loc.dep0 # RDiv(DepNumer(loc), R(100))

(***************************************************************************)
(* C4.  When the events of a day define no source term of a target, the    *)
(* target's value before the challenge adjustment is exactly 50; the pass  *)
(* completes for every day whatever signals are missing.                   *)
(***************************************************************************)
C4_DefaultMidpoint ==
    built =>
        /\ Len(day_locals) = Cardinality(DayKeys(checkins, chats, assessments))
        /\ \A i \in Idx(day_locals) :
             LET loc == day_locals[i]
                 d == loc.date
             IN  /\ ( /\ QuestionnaireDaysUpTo(d) = {}
                      /\ ~HasCheckin(d) /\ ~HasRumination(d) /\ ~HasDistortion(d) )
                        => loc.dep0 = R(50)
                 /\ ( /\ ~HasDistress(d) /\ ~HasRumination(d)
                      /\ ~HasCheckin(d) /\ ~HasDistortion(d) )
                        => loc.anx0 = R(50)
                 /\ (~HasSleepDifficulty(d) /\ ~HasSleepHours(d)) => loc.ins0 = R(50)
                 /\ InRange(loc.dep0) /\ InRange(loc.anx0) /\ InRange(loc.ins0)

\* A questionnaire-only day (anx and ins default) next to a check-in day without
\* sleep hours and without chat (ins defaults, dep and anx do not).
C4_Witness ==
    /\ built
    /\ \E i, j \in Idx(day_locals) :
         /\ HasQuestionnaire(day_locals[i].date)
         /\ ~HasCheckin(day_locals[i].date)
         /\ IsNone(day_locals[i].anx_blend) /\ IsNone(day_locals[i].ins_blend)
         /\ day_locals[i].anx0 = R(50) /\ day_locals[i].ins0 = R(50)
         /\ HasCheckin(day_locals[j].date)
         /\ ~HasSleepHours(day_locals[j].date)
         /\ IsNone(day_locals[j].ins_blend)
         /\ day_locals[j].ins0 = R(50)
         /\ day_locals[j].anx0 # R(50)


(***************************************************************************)
(* C5.  With in-range inputs, every daily dep/anx/ins and every weekly     *)
(* dep_week/anx_week/ins_week/composite lies in [0,100].                   *)
(***************************************************************************)
C5_ScoresInRange ==
    built =>
        /\ \A i \in Idx(day_scores) :
             /\ InRange(day_scores[i].dep)
             /\ InRange(day_scores[i].anx)
             /\ InRange(day_scores[i].ins)
        /\ \A k \in Idx(rows) :
             /\ InRange(rows[k].dep_week_pred_0_100)
             /\ InRange(rows[k].anx_week_pred_0_100)
             /\ InRange(rows[k].ins_week_pred_0_100)
             /\ InRange(rows[k].symptom_composite_pred_0_100)

\* A day whose dep falls below zero before clipping, and a day of extreme chat
\* indicators (distress 10, distortion total 50) whose anx reaches 100.
C5_Witness ==
    /\ built
    /\ rows # <<>>
    /\ \E i, j \in Idx(day_locals) :
         /\ ~IsNone(day_locals[i].challenge_completion)
         /\ RLt(RSub(day_locals[i].dep0, RMul(day_locals[i].challenge_completion, R(12))),
                R(0))
         /\ day_scores[i].dep = R(0)
         /\ day_locals[j].distress_scaled = R(100)
         /\ day_locals[j].distortion_scaled = R(100)
         /\ day_scores[j].anx = R(100)

(***************************************************************************)
(* C6.  When the day's challenge_completion_rate is defined, dep, anx and  *)
(* ins are the blend (or the 50 default) minus 12, 10 and 6 times the      *)
(* rate, clipped to [0,100] after the subtraction; two days with equal     *)
(* blends and rates 1 and 0 differ by exactly 12/10/6 where nothing is     *)
(* clipped, and a blend below the deduction gives 0.                       *)
(***************************************************************************)
ClipAfter(x) == IF RLt(x, R(0)) THEN R(0) ELSE IF RLt(R(100), x) THEN R(100) ELSE x

C6_ChallengeAdjustment ==
    built =>
        /\ \A i \in Idx(day_locals) :
             LET loc == day_locals[i]
                 rate == loc.challenge_completion
             IN  /\ ~IsNone(rate) <=> HasCheckin(loc.date)
                 /\ ~IsNone(rate) =>
                      /\ loc.dep = ClipAfter(RSub(loc.dep0, RMul(R(12), rate)))
                      /\ loc.anx = ClipAfter(RSub(loc.anx0, RMul(R(10), rate)))
                      /\ loc.ins = ClipAfter(RSub(loc.ins0, RMul(R(6), rate)))
        /\ \A i, j \in Idx(day_locals) :
             LET a == day_locals[i]
                 b == day_locals[j]
             IN  ( /\ a.challenge_completion = R(1)
                   /\ b.challenge_completion = R(0) ) =>
                     /\ (a.dep0 = b.dep0 /\ RLe(R(12), a.dep0))
                            => RSub(b.dep, a.dep) = R(12)
                     /\ (a.anx0 = b.anx0 /\ RLe(R(10), a.anx0))
                            => RSub(b.anx, a.anx) = R(10)
                     /\ (a.ins0 = b.ins0 /\ RLe(R(6), a.ins0))
                            => RSub(b.ins, a.ins) = R(6)

\* Two days with the same blends and rates 1 and 0 (ins being the 50 default),
\* and a day whose blend is below the deduction.
C6_Witness ==
    /\ built
    /\ \E i, j, k \in Idx(day_locals) :
         /\ day_locals[i].challenge_completion = R(1)
         /\ day_locals[j].challenge_completion = R(0)
         /\ day_locals[i].dep0 = day_locals[j].dep0
         /\ RLe(R(12), day_locals[i].dep0)
         /\ IsNone(day_locals[i].ins_blend)
         /\ day_locals[i].ins = R(44)
         /\ day_locals[j].ins = R(50)
         /\ RLt(day_locals[k].dep0, RMul(R(12), day_locals[k].challenge_completion))
         /\ day_locals[k].dep = R(0)


(***************************************************************************)
(* C7.  In the alert pass, every record after the first has                *)
(* X_delta = X_week - X_week of the record just before it in the output    *)
(* (also across absent calendar weeks), for X in dep, anx, ins; the first  *)
(* record has all three deltas undefined; no other delta is undefined.     *)
(***************************************************************************)
C7_DeltaFromPrecedingRecord ==
    built =>
        \A k \in Idx(rows) :
            IF k = 1
            THEN /\ IsNone(rows[k].dep_week_delta)
                 /\ IsNone(rows[k].anx_week_delta)
                 /\ IsNone(rows[k].ins_week_delta)
            ELSE /\ ~IsNone(rows[k].dep_week_delta)
                 /\ ~IsNone(rows[k].anx_week_delta)
                 /\ ~IsNone(rows[k].ins_week_delta)
                 /\ rows[k].dep_week_delta =
                        RSub(rows[k].dep_week_pred_0_100, rows[k - 1].dep_week_pred_0_100)
                 /\ rows[k].anx_week_delta =
                        RSub(rows[k].anx_week_pred_0_100, rows[k - 1].anx_week_pred_0_100)
                 /\ rows[k].ins_week_delta =
                        RSub(rows[k].ins_week_pred_0_100, rows[k - 1].ins_week_pred_0_100)

\* Three records, an absent calendar week before the third, whose dep delta against
\* the second record differs from the one against the first.
C7_Witness ==
    /\ built
    /\ Len(rows) = 3
    /\ rows[3].week_start_date - rows[2].week_start_date > 7
    /\ rows[3].dep_week_delta # R(0)
    /\ rows[3].dep_week_delta #
           RSub(rows[3].dep_week_pred_0_100, rows[1].dep_week_pred_0_100)

(***************************************************************************)
(* C8.  Each of dep_week, anx_week, ins_week is bucketed on its own:       *)
(* minimal below 25, mild in [25,50), moderate in [50,75), severe from 75; *)
(* exactly one band applies and 25, 50, 75 belong to the higher band.      *)
(***************************************************************************)
Band(score, label) ==
    LET n == score[1]
        d == score[2]
    IN  /\ label \in {"minimal", "mild", "moderate", "severe"}
        /\ label = "minimal" <=> n < 25 * d
        /\ label = "mild" <=> (25 * d <= n /\ n < 50 * d)
        /\ label = "moderate" <=> (50 * d <= n /\ n < 75 * d)
        /\ label = "severe" <=> 75 * d <= n

C8_SeverityBands ==
    built =>
        \A k \in Idx(rows) :
            /\ Band(rows[k].dep_week_pred_0_100, rows[k].dep_severity)
            /\ Band(rows[k].anx_week_pred_0_100, rows[k].anx_severity)
            /\ Band(rows[k].ins_week_pred_0_100, rows[k].ins_severity)

\* Records whose dep_week is exactly 25, 50 and 75, in the higher band each time,
\* while anx and ins of the same records fall in other bands.
C8_Witness ==
    /\ built
    /\ \E a, b, c \in Idx(rows) :
         /\ rows[a].dep_week_pred_0_100 = R(25) /\ rows[a].dep_severity = "mild"
         /\ rows[b].dep_week_pred_0_100 = R(50) /\ rows[b].dep_severity = "moderate"
         /\ rows[c].dep_week_pred_0_100 = R(75) /\ rows[c].dep_severity = "severe"
         /\ rows[c].anx_severity = "moderate"
         /\ rows[a].ins_severity = "severe"

(***************************************************************************)
(* C9.  rule_week_delta_worsen holds iff some dep/anx/ins delta is defined *)
(* and at least 5; rule_any_severe iff one of the three buckets is severe; *)
(* rule_composite_high iff composite is at least 65.                       *)
(***************************************************************************)
AtLeast(x, n) == ~IsNone(x) /\ n * x[2] <= x[1]

C9_RuleFlags ==
    built =>
        \A k \in Idx(rows) :
            LET row == rows[k]
            IN  /\ row.rule_week_delta_worsen \in {0, 1}
                /\ row.rule_any_severe \in {0, 1}
                /\ row.rule_composite_high \in {0, 1}
                /\ row.rule_week_delta_worsen = 1 <=>
                       \/ AtLeast(row.dep_week_delta, 5)
                       \/ AtLeast(row.anx_week_delta, 5)
                       \/ AtLeast(row.ins_week_delta, 5)
                /\ row.rule_any_severe = 1 <=>
                       \/ row.dep_severity = "severe"
                       \/ row.anx_severity = "severe"
                       \/ row.ins_severity = "severe"
                /\ row.rule_composite_high = 1 <=>
                       AtLeast(row.symptom_composite_pred_0_100, 65)

\* A first record with composite exactly 65 and no delta, followed by a record
\* whose only rise is a dep delta of exactly 5, followed by one with no rise.
C9_Witness ==
    /\ built
    /\ Len(rows) = 3
    /\ rows[1].symptom_composite_pred_0_100 = R(65)
    /\ rows[1].rule_composite_high = 1
    /\ rows[1].rule_week_delta_worsen = 0
    /\ rows[1].rule_any_severe = 0
    /\ rows[2].dep_week_delta = R(5)
    /\ rows[2].anx_week_delta = R(0)
    /\ rows[2].ins_week_delta = R(0)
    /\ rows[2].rule_week_delta_worsen = 1
    /\ rows[2].rule_any_severe = 1
    /\ RLt(rows[3].dep_week_delta, R(0))
    /\ rows[3].rule_week_delta_worsen = 0

(***************************************************************************)
(* C10.  alert_risk_score = 1*rule_week_delta_worsen + 2*rule_any_severe + *)
(* 2*rule_composite_high; alert_flag iff the score is at least 2;          *)
(* alert_level is high from 4, medium for 2 and 3, low below 2.            *)
(***************************************************************************)
C10_RiskScoreAndLevel ==
    built =>
        \A k \in Idx(rows) :
            LET row == rows[k]
                score == row.alert_risk_score
            IN  /\ score = row.rule_week_delta_worsen + 2 * row.rule_any_severe
                             + 2 * row.rule_composite_high
                /\ row.alert_flag \in {0, 1}
                /\ row.alert_flag = 1 <=> score >= 2
                /\ row.alert_level \in {"low", "medium", "high"}
                /\ row.alert_level = "high" <=> score >= 4
                /\ row.alert_level = "medium" <=> (score >= 2 /\ score < 4)

\* A severe-only first record (score 2, medium), then a record where only the
\* worsening rule fires (score 1, low, no flag), then one where all three fire.
C10_Witness ==
    /\ built
    /\ Len(rows) = 3
    /\ rows[1].alert_risk_score = 2
    /\ rows[1].alert_level = "medium"
    /\ rows[1].alert_flag = 1
    /\ rows[2].rule_week_delta_worsen = 1
    /\ rows[2].alert_risk_score = 1
    /\ rows[2].alert_level = "low"
    /\ rows[2].alert_flag = 0
    /\ rows[3].alert_risk_score = 5
    /\ rows[3].alert_level = "high"

(***************************************************************************)
(* C11.  alert_reason_codes of every record lists exactly the rules that   *)
(* fired for it, each once, in the order worsening_delta, severe_band,     *)
(* high_composite, separated by "|"; it is empty when no rule fired.       *)
(***************************************************************************)
ReasonCodes(worsen, severe, high) ==
    CASE worsen = 0 /\ severe = 0 /\ high = 0 -> ""
      [] worsen = 1 /\ severe = 0 /\ high = 0 -> "worsening_delta"
      [] worsen = 0 /\ severe = 1 /\ high = 0 -> "severe_band"
      [] worsen = 0 /\ severe = 0 /\ high = 1 -> "high_composite"
      [] worsen = 1 /\ severe = 1 /\ high = 0 -> "worsening_delta|severe_band"
      [] worsen = 1 /\ severe = 0 /\ high = 1 -> "worsening_delta|high_composite"
      [] worsen = 0 /\ severe = 1 /\ high = 1 -> "severe_band|high_composite"
      [] worsen = 1 /\ severe = 1 /\ high = 1 ->
             "worsening_delta|severe_band|high_composite"

C11_ReasonCodes ==
    built =>
        \A k \in Idx(rows) :
            rows[k].alert_reason_codes =
                ReasonCodes(rows[k].rule_week_delta_worsen, rows[k].rule_any_severe,
                            rows[k].rule_composite_high)

\* A record with no rule fired (empty list), one with the first and the third
\* rule only, and one with all three.
C11_Witness ==
    /\ built
    /\ Len(rows) = 3
    /\ rows[1].alert_risk_score = 0
    /\ rows[1].alert_reason_codes = ""
    /\ rows[2].rule_any_severe = 0
    /\ rows[2].alert_reason_codes = "worsening_delta|high_composite"
    /\ rows[3].alert_reason_codes = "worsening_delta|severe_band|high_composite"

(***************************************************************************)
(* C12.  The day loop leaves exactly one entry (one set of day signals and *)
(* one day score) for every calendar day on which a check-in, a chat or a  *)
(* questionnaire is stored, and none for any other day; so the active_days *)
(* of all weekly records add up to the number of distinct event dates.     *)
(***************************************************************************)
EventDays ==
    {checkins[i].created_at : i \in Idx(checkins)}
      \cup {chats[i].created_at : i \in Idx(chats)}
      \cup {assessments[i].created_at : i \in Idx(assessments)}

C12_OneSignalPerEventDay ==
    built =>
        /\ {day_scores[i].date : i \in Idx(day_scores)} = EventDays
        /\ Len(day_scores) = Cardinality(EventDays)
        /\ Len(day_locals) = Len(day_scores)
        /\ \A i \in Idx(day_scores) : day_locals[i].date = day_scores[i].date
        /\ ISum([k \in Idx(rows) |-> rows[k].active_days]) = Cardinality(EventDays)

\* Three events on two days: a day with a check-in and a questionnaire (one
\* entry for both) and a later day whose only event is a chat.
C12_Witness ==
    /\ built
    /\ EventCount = 3
    /\ Len(day_scores) = 2
    /\ HasCheckin(day_scores[1].date) /\ HasQuestionnaire(day_scores[1].date)
    /\ ~HasCheckin(day_scores[2].date) /\ ~HasQuestionnaire(day_scores[2].date)
    /\ \E i \in Idx(chats) : chats[i].created_at = day_scores[2].date
    /\ ISum([k \in Idx(rows) |-> rows[k].active_days]) = 2

(***************************************************************************)
(* C13.  The output has exactly one record for every Monday-to-Sunday week *)
(* that holds at least one day score and no record for a week that holds   *)
(* none; the records are in strictly ascending week_start_date order, so   *)
(* no week appears twice.                                                  *)
(***************************************************************************)
PopulatedWeeks ==
    {w \in 0..(MaxWeeks + 1) :
        \E i \in Idx(day_scores) : 7 * w <= day_scores[i].date
                                     /\ day_scores[i].date <= 7 * w + 6}

C13_OneRecordPerPopulatedWeek ==
    built =>
        /\ {rows[k].week_start_date : k \in Idx(rows)} = {7 * w : w \in PopulatedWeeks}
        /\ Len(rows) = Cardinality(PopulatedWeeks)
        /\ \A k \in Idx(rows) : MemberDays(rows[k]) # {}
        /\ \A k, l \in Idx(rows) :
             k < l => rows[k].week_start_date < rows[l].week_start_date

\* Monday and Sunday of week 0 in one record, week 1, no record for the empty
\* week 2, and the Sunday of week 3 filed under that week's Monday.
C13_Witness ==
    /\ built
    /\ Len(day_scores) = 4
    /\ Len(rows) = 3
    /\ rows[1].week_start_date = 0 /\ rows[1].active_days = 2
    /\ \E i \in Idx(day_scores) : day_scores[i].date = 6
    /\ rows[2].week_start_date = 7
    /\ rows[3].week_start_date = 21
    /\ \E i \in Idx(day_scores) : day_scores[i].date = 27

(***************************************************************************)
(* C15.  A dashboard request for a user without any stored event completes *)
(* and returns the empty list: no day entry and no weekly record.          *)
(***************************************************************************)
C15_NoEventsEmptyResult ==
    (built /\ checkins = <<>> /\ chats = <<>> /\ assessments = <<>>) =>
        /\ day_scores = <<>>
        /\ rows = <<>>

\* The request has been served while all three tables are empty.
C15_Witness ==
    /\ built
    /\ EventCount = 0
    /\ EventDays = {}
    /\ rows = <<>>

(***************************************************************************)
(* C17.  For every list of nine item scores, each in 0..3, score_phq9      *)
(* returns total_score = the sum of the nine items and the severity band   *)
(* of that total: 0-4 minimal, 5-9 mild, 10-14 moderate, 15-19             *)
(* moderately_severe, 20-27 severe.                                        *)
(***************************************************************************)
\* How many of the nine items have the score v.
ItemsScoring(v) == Cardinality({i \in 1..9 : phq9_scores[i] = v})

ItemTotal == ItemsScoring(1) + 2 * ItemsScoring(2) + 3 * ItemsScoring(3)

BandOfTotal(t) ==
    CASE t \in 0..4 -> "minimal"
      [] t \in 5..9 -> "mild"
      [] t \in 10..14 -> "moderate"
      [] t \in 15..19 -> "moderately_severe"
      [] t \in 20..27 -> "severe"

C17_Phq9TotalAndSeverity ==
    (phq9_result # <<>> /\ phq9_scores \in [1..9 -> 0..3]) =>
        /\ phq9_result.raised = ""
        /\ phq9_result.total_score = ItemTotal
        /\ phq9_result.severity = BandOfTotal(ItemTotal)

\* A mixed list that adds up to 20, the first total of the severe band.
C17_Witness ==
    /\ phq9_scores = <<3, 3, 3, 3, 2, 2, 2, 1, 1>>
    /\ phq9_result # <<>>
    /\ phq9_result.total_score = 20
    /\ phq9_result.severity = "severe"

(***************************************************************************)
(* C16.  The list returned to a user is the one computed from the tables   *)
(* with every other user's rows removed: whatever the other users store    *)
(* and whenever their dashboards are built, before or after this user's    *)
(* request, this user's output stays the same.                             *)
(***************************************************************************)
WithoutOthers(table, u) ==
    SelectSeq(table, LAMBDA row : \A v \in UserIds \ {u} : row.user_id # v)

C16_OwnEventsOnly ==
    dashboards # <<>> =>
        \A u \in UserIds :
            dashboards[u].built =>
                dashboards[u].rows =
                    UserWeeklyDashboard(WithoutOthers(checkins, u),
                                        WithoutOthers(chats, u),
                                        WithoutOthers(assessments, u))

\* Both users have been served, both have events in the same week, and the rows
\* of the other user would have changed this user's output had they been read.
C16_Witness ==
    /\ dashboards # <<>>
    /\ dashboards["u1"].built /\ dashboards["u2"].built
    /\ dashboards["u1"].rows # <<>> /\ dashboards["u2"].rows # <<>>
    /\ dashboards["u1"].rows # dashboards["u2"].rows
    /\ dashboards["u1"].rows[1].week_start_date = dashboards["u2"].rows[1].week_start_date
    /\ dashboards["u1"].rows # UserWeeklyDashboard(checkins, chats, assessments)

(***************************************************************************)
(* C18.  A signup request that arrives while its email has an account is   *)
(* answered 409, stores no account and leaves the existing one as it is;   *)
(* no step of any signup request changes an existing account; and no email *)
(* ever has more than one account.  So the account of an email keeps the   *)
(* nickname and the password of the signup that created it, whatever       *)
(* signup requests follow.                                                 *)
(***************************************************************************)
AccountsOf(us, email) == {i \in DOMAIN us : us[i].email = email}

SignupStep ==
    \E payload \in SignupPayloads : SignupCheck(payload) \/ SignupCreate(payload)

C18_Step ==
    /\ \A payload \in SignupPayloads :
         Cardinality(AccountsOf(users', payload.email)) <= 1
    /\ SignupStep =>
         \A i \in DOMAIN users : i \in DOMAIN users' /\ users'[i] = users[i]
    /\ \A payload \in SignupPayloads :
         (SignupCheck(payload) /\ AccountsOf(users, payload.email) # {}) =>
             /\ response'.op = "signup"
             /\ response'.request = payload
             /\ response'.status = 409
             /\ users' = users
             /\ inflight' = inflight

C18_DuplicateSignupRejected == [][C18_Step]_vars

\* A second signup for a@x.io with another nickname and password has just been
\* answered 409; the account still has the first nickname and password.
C18_Witness ==
    /\ response # <<>>
    /\ response.op = "signup"
    /\ response.status = 409
    /\ response.request.email = "a@x.io"
    /\ \E i \in DOMAIN users :
         /\ users[i].email = response.request.email
         /\ users[i].nickname # response.request.nickname
         /\ ~VerifyPassword(response.request.password, users[i].password_hash)
         /\ ~users[i].profile

(***************************************************************************)
(* C19.  A profile update that carries the correct current password and a  *)
(* new password, different from the current one, is answered 200; from     *)
(* then on a login with the old password is answered 401 and a login with  *)
(* the new password 200, and the email of the account is the same.  An     *)
(* update that carries a new password without the current one is answered  *)
(* 400, with a wrong current one 401, and neither changes the password or  *)
(* the nickname.                                                           *)
(***************************************************************************)
C19_Step ==
    ( /\ response' # <<>>
      /\ response'.op = "update_profile"
      /\ UpdateMyProfile(response'.user_id, response'.request) ) =>
            LET user_id == response'.user_id
                payload == response'.request
                account == users[user_id]
                changes == payload.new_password # Missing
                given == payload.current_password # Missing
                correct == account.password_hash = [bcrypt |-> payload.current_password]
            IN  /\ (changes /\ given /\ correct) =>
                     /\ response'.status = 200
                     /\ users'[user_id].email = account.email
                     /\ LoginStatus(users', account.email, payload.new_password) = 200
                     /\ payload.current_password # payload.new_password =>
                          LoginStatus(users', account.email,
                                      payload.current_password) = 401
                /\ (changes /\ ~given) =>
                     /\ response'.status = 400
                     /\ users' = users
                /\ (changes /\ given /\ ~correct) =>
                     /\ response'.status = 401
                     /\ users' = users

C19_PasswordChange == [][C19_Step]_vars

\* An update with current password pw1 and new password pw2 has just been
\* answered 200 for the account of a@x.io: pw2 now logs in, pw1 does not.
C19_Witness ==
    /\ response # <<>>
    /\ response.op = "update_profile"
    /\ response.status = 200
    /\ response.request.current_password = "pw1"
    /\ response.request.new_password = "pw2"
    /\ users[response.user_id].email = "a@x.io"
    /\ LoginStatus(users, "a@x.io", "pw2") = 200
    /\ LoginStatus(users, "a@x.io", "pw1") = 401

(* C20. A request that creates a board post with is_notice or              *)
(* is_mental_health_post true, or that sets either flag on an existing     *)
(* post, is answered 201/200 only when its sender is an admin; sent by a   *)
(* non-admin it is answered 403 and leaves the posts as they were; and a   *)
(* flag that is newly true on a post was put there by an admin's request.  *)
SetsFlag(body) == \E k \in DOMAIN body : body[k]

FlaggedPosts(table) ==
  { <<i, k>> \in (1..Len(table)) \X FlagKeys : table[i][k] }

C20_Step ==
  LET r == response' IN
    ( /\ r # <<>>
      /\ r.op \in {"create_post", "update_post"}
      /\ \/ CreatePost(r.user, r.request)
         \/ /\ UpdatePost(r.user, r.post_id, r.request)
            /\ GetBoardPostById(posts, r.post_id) # NoUser
      /\ SetsFlag(r.request) )
    => /\ r.status \in {200, 201} => IsAdminUser(r.user)
       /\ ~IsAdminUser(r.user) => (r.status = 403 /\ posts' = posts)
       /\ FlaggedPosts(posts') \ FlaggedPosts(posts) # {} => IsAdminUser(r.user)

C20_AdminOnlyFlags == [][C20_Step]_vars

(* C14. The dashboard a request returns is the one every order of fetching *)
(* the same stored check-ins, chats and questionnaires gives.              *)
C14_SameForEveryFetchOrder ==
    built =>
      \A pc \in FetchOrders(Len(checkins)), ph \in FetchOrders(Len(chats)),
         pa \in FetchOrders(Len(assessments)) :
        Dashboard64(Fetched(checkins, pc), Fetched(chats, ph),
                    Fetched(assessments, pa)) = rows

(* C21. On an existing post, a comment whose content starts with the       *)
(* admin-reply prefix is answered 403 when its author is no admin, 400     *)
(* when the author is an admin and the post is not an inquiry, legacy      *)
(* inquiry or feedback post, and is stored otherwise; a comment without    *)
(* the prefix is stored, whatever the post and the author; a comment       *)
(* answered anything but 201 is not stored.  The prefix is looked for      *)
(* after the blanks that lead the content, as create_comment does.         *)
ReplyCategories == {"INQUIRY", "LEGACY_INQUIRY", "FEEDBACK"}

StartsWithPrefixAfterBlanks(content) ==
  \E i \in 1..Len(content) :
    /\ content[i] = AdminReplyPrefix
    /\ \A j \in 1..(i - 1) : content[j] = Blank

\* A comment request on an existing post with a content the schema accepts
IsCommentStep(r) ==
  /\ r # <<>>
  /\ r.op = "create_comment"
  /\ CreateComment(r.user, r.post_id, r.request)
  /\ r.post_id \in 1..Len(posts)
  /\ r.request # <<>>

CommentAnswer(r, prefixed) ==
  LET admin == r.user \in (EnvAdminEmails \cup admin_emails)
      category == posts[r.post_id].category
      stored == [ id |-> Len(comments) + 1, post_id |-> r.post_id,
                  author_id |-> r.user, content |-> r.request ]
  IN  /\ r.status = IF prefixed /\ ~admin THEN 403
                    ELSE IF prefixed /\ category \notin ReplyCategories THEN 400
                    ELSE 201
      /\ comments' = IF r.status = 201 THEN Append(comments, stored) ELSE comments

C21_Step ==
  IsCommentStep(response') =>
    CommentAnswer(response', StartsWithPrefixAfterBlanks(response'.request))

C21_AdminReplyScope == [][C21_Step]_vars

\* An admin's reply with a blank before the prefix is stored on a legacy
\* inquiry post.
C21_Witness ==
  /\ response # <<>>
  /\ response.op = "create_comment"
  /\ response.status = 201
  /\ response.user = "admin@example.com"
  /\ response.request = <<Blank, AdminReplyPrefix, "text">>
  /\ posts[response.post_id].category = "LEGACY_INQUIRY"
  /\ comments = << [ id |-> 1, post_id |-> response.post_id,
                     author_id |-> "admin@example.com",
                     content |-> <<Blank, AdminReplyPrefix, "text">> ] >>

(* C22. The list an admin gets from the pending-replies request holds a    *)
(* post exactly when the post is an inquiry, legacy inquiry or feedback    *)
(* post and no comment on it is by an admin.                               *)
AnsweredByAdmin(post_id) ==
  \E i \in 1..Len(comments) :
    /\ comments[i].post_id = post_id
    /\ comments[i].author_id \in (EnvAdminEmails \cup admin_emails)

ListedPosts == { response.items[i].post_id : i \in 1..Len(response.items) }

IsPendingList ==
  /\ response # <<>>
  /\ response.op = "pending_replies"
  /\ response.status = 200

\* The inquiry and feedback posts created after post_id
NewerReplyPosts(post_id) ==
  { q \in (post_id + 1)..Len(posts) : posts[q].category \in ReplyCategories }

C22_PendingIffUnanswered_AnyLimit ==
  IsPendingList =>
    ListedPosts = { p \in 1..Len(posts) :
                      posts[p].category \in ReplyCategories /\ ~AnsweredByAdmin(p) }

(* C22, amended: ... exactly when the post is one of the limit most        *)
(* recently created inquiry, legacy inquiry and feedback posts and no      *)
(* comment on it is by an admin.                                           *)
C22_PendingIffUnanswered ==
  IsPendingList =>
    ListedPosts = { p \in 1..Len(posts) :
                      /\ posts[p].category \in ReplyCategories
                      /\ Cardinality(NewerReplyPosts(p)) < response.request
                      /\ ~AnsweredByAdmin(p) }

\* After the admin's reply on the inquiry post, the list holds the feedback
\* post alone.
C22_Witness ==
  /\ IsPendingList
  /\ Len(posts) = 2
  /\ posts[1].category = "INQUIRY"
  /\ posts[2].category = "FEEDBACK"
  /\ \E i \in 1..Len(comments) :
       /\ comments[i].post_id = 1
       /\ comments[i].author_id = "admin@example.com"
       /\ comments[i].content = <<AdminReplyPrefix, "text">>
  /\ ListedPosts = {2}

(* C23. The alert rule stage leaves every object the weekly roll-up made   *)
(* as it was, the row dicts and the list of them, and returns a list and   *)
(* row objects that did not exist before it ran.                           *)
\* A step in which _apply_alert_rules ran on the list of the roll-up
AlertStageRan ==
    /\ objects # <<>>
    /\ "result" \notin DOMAIN objects
    /\ "result" \in DOMAIN objects'

C23_AlertStep ==
    AlertStageRan =>
        /\ \A a \in DOMAIN objects.heap : objects'.heap[a] = objects.heap[a]
        /\ objects'.result \notin DOMAIN objects.heap
        /\ \A i \in 1..Len(objects'.heap[objects'.result]) :
             objects'.heap[objects'.result][i] \notin DOMAIN objects.heap

C23_AlertStageLeavesRollupRows == [][C23_AlertStep]_vars

\* What the alert stage does to the objects of the roll-up: the list it returns
\* is the roll-up's list, each dict of it keeps its six roll-up keys with
\* their values and has the thirteen keys of the alert pass added, and the
\* values are those of the pass on records.
C23_InPlaceStep ==
    AlertStageRan =>
        /\ objects'.result = objects.rows
        /\ DOMAIN objects'.heap = DOMAIN objects.heap
        /\ objects'.heap[objects.rows] = objects.heap[objects.rows]
        /\ \A i \in 1..Len(objects.heap[objects.rows]) :
             LET before == objects.heap[objects.heap[objects.rows][i]]
                 after == objects'.heap[objects.heap[objects.rows][i]]
             IN  /\ \A k \in DOMAIN before : after[k] = before[k]
                 /\ Cardinality(DOMAIN after \ DOMAIN before) = 13
        /\ rows' = RollupAndAlert(day_scores)

C23_AlertStageAddsKeysInPlace == [][C23_InPlaceStep]_vars

(* C24. Each check-in contributes the rate min(1, completed / total) when  *)
(* its challenge total is above 0, else 1 when exercised is set, else 0;   *)
(* the challenge_completion_rate of a day with check-ins is the mean of    *)
(* the rates of its check-ins and lies in [0, 1], also when completed is   *)
(* above total; a day without check-ins has none.                          *)
\* The rate of a stored check-in, as <<numerator, denominator>>
C24_Rate(row) ==
    LET completed == row.note.challenge_completed_count
        total == row.note.challenge_total_count
    IN  IF total > 0
        THEN (IF completed >= total THEN <<1, 1>> ELSE <<completed, total>>)
        ELSE IF row.exercised THEN <<1, 1>> ELSE <<0, 1>>

\* n / d is the mean of the rates of the check-ins c: n / d * Len(c) is their sum.
RECURSIVE C24_IsMean(_, _, _, _)
C24_IsMean(n, d, c, count) ==
    IF c = <<>> THEN n = 0
    ELSE LET r == C24_Rate(c[1])
         IN  C24_IsMean(n * r[2] * count - r[1] * d, d * r[2] * count, Tail(c), count)

C24_CompletionRate ==
    built =>
        \A i \in 1..Len(day_locals) :
            LET c == SelectSeq(checkins, LAMBDA row : row.created_at = day_locals[i].date)
                rate == day_locals[i].challenge_completion
            IN  IF c = <<>> THEN rate[2] = 0
                ELSE /\ rate[2] > 0
                     /\ C24_IsMean(rate[1], rate[2], c, Len(c))
                     /\ 0 <= rate[1]
                     /\ rate[1] <= rate[2]

\* A day with a check-in of 3 out of 2 challenges and one of 1 out of 2 has the
\* rate 3/4.
C24_Witness ==
    /\ built
    /\ \E i \in 1..Len(day_locals) :
         /\ day_locals[i].challenge_completion = <<3, 4>>
         /\ \E j, k \in 1..Len(checkins) :
              /\ checkins[j].created_at = day_locals[i].date
              /\ checkins[k].created_at = day_locals[i].date
              /\ checkins[j].note.challenge_completed_count = 3
              /\ checkins[j].note.challenge_total_count = 2
              /\ checkins[k].note.challenge_completed_count = 1

(* C25. Every daily score is filed under the Monday on or before its date: *)
(* each record's week_start_date is a Monday, each day score is counted in *)
(* exactly one record, the one whose week_start_date is the latest Monday  *)
(* not after the day, two days are in the same record exactly when they    *)
(* lie in the same Monday-to-Sunday week, and a Sunday and the Monday      *)
(* after it are in different records.                                      *)
\* Day 0 is a Monday.
IsMonday(d) == \E w \in 0..(MaxWeeks + 1) : d = 7 * w

IsSunday(d) == IsMonday(d + 1)

\* The records that can hold the day score i: those whose active_days and
\* dep mean are taken over a set of days that has the day of i in it.
RecordsOf(i) ==
    { k \in Idx(rows) :
        \E D \in SUBSET Idx(day_scores) :
            /\ i \in D
            /\ \A j \in D : rows[k].week_start_date <= day_scores[j].date
            /\ \A j \in D : day_scores[j].date <= rows[k].week_start_date + 6
            /\ Cardinality(D) = rows[k].active_days
            /\ RMul(rows[k].dep_week_pred_0_100, R(Cardinality(D)))
                 = RSum([n \in 1..Cardinality(D) |->
                           day_scores[SortedSeq(D)[n]].dep]) }

C25_BucketedByMonday ==
    built =>
        /\ \A k \in Idx(rows) : IsMonday(rows[k].week_start_date)
        /\ \A i \in Idx(day_scores) :
             \E k \in Idx(rows) :
                 /\ RecordsOf(i) = {k}
                 /\ rows[k].week_start_date <= day_scores[i].date
                 /\ \A m \in (rows[k].week_start_date + 1)..day_scores[i].date :
                      ~IsMonday(m)
        /\ \A i, j \in Idx(day_scores) :
             (RecordsOf(i) = RecordsOf(j))
               <=> (\E w \in 0..(MaxWeeks + 1) :
                      /\ 7 * w <= day_scores[i].date /\ day_scores[i].date <= 7 * w + 6
                      /\ 7 * w <= day_scores[j].date /\ day_scores[j].date <= 7 * w + 6)
        /\ \A i, j \in Idx(day_scores) :
             (IsSunday(day_scores[i].date) /\ day_scores[j].date = day_scores[i].date + 1)
               => RecordsOf(i) \cap RecordsOf(j) = {}

\* Monday, Wednesday and Sunday of week 0 in one record and the Monday after
\* that Sunday in the next one.
C25_Witness ==
    /\ built
    /\ Len(day_scores) = 4
    /\ day_scores[1].date = 0
    /\ day_scores[2].date = 2
    /\ day_scores[3].date = 6
    /\ day_scores[4].date = 7
    /\ Len(rows) = 2
    /\ rows[1].week_start_date = 0
    /\ rows[1].active_days = 3
    /\ rows[2].week_start_date = 7
    /\ rows[2].active_days = 1

(* C26. In every weekly record the composite is (dep_week + anx_week +     *)
(* ins_week) / 3 of that record, and active_days is the number of distinct *)
(* days with a score in the record's week, at least 1 and at most 7.       *)
C26_CompositeAndActiveDays ==
    built =>
        \A k \in Idx(rows) :
            LET row == rows[k]
                days == { day_scores[i].date : i \in MemberDays(row) }
                total == RAdd(row.dep_week_pred_0_100,
                              RAdd(row.anx_week_pred_0_100, row.ins_week_pred_0_100))
            IN  /\ RMul(row.symptom_composite_pred_0_100, R(3)) = total
                /\ row.active_days = Cardinality(days)
                /\ 1 <= row.active_days
                /\ row.active_days <= 7

\* A week with the scores 80, 60 and 70 on each of its seven days, composite
\* 70, and one active day in the week after it.
C26_Witness ==
    /\ built
    /\ Len(rows) = 2
    /\ rows[1].active_days = 7
    /\ rows[1].dep_week_pred_0_100 = <<80, 1>>
    /\ rows[1].anx_week_pred_0_100 = <<60, 1>>
    /\ rows[1].ins_week_pred_0_100 = <<70, 1>>
    /\ rows[1].symptom_composite_pred_0_100 = <<70, 1>>
    /\ rows[2].active_days = 1

(* C27. In every weekly record alert_flag is set exactly when              *)
(* rule_any_severe or rule_composite_high fired, and alert_level is high   *)
(* exactly when both fired; a worsening delta alone (score 1) does not set *)
(* alert_flag; the first record's score is 0, 2 or 4; every score is one   *)
(* of 0, 1, 2, 3, 4, 5.                                                    *)
C27_FlagAndLevelFromRules ==
    built =>
        \A k \in Idx(rows) :
            LET row == rows[k]
                worsen == row.rule_week_delta_worsen = 1
                severe == row.rule_any_severe = 1
                high == row.rule_composite_high = 1
            IN  /\ row.alert_flag = 1 <=> (severe \/ high)
                /\ row.alert_level = "high" <=> (severe /\ high)
                /\ (worsen /\ ~severe /\ ~high) =>
                       (row.alert_risk_score = 1 /\ row.alert_flag = 0)
                /\ row.alert_risk_score = 1 => row.alert_flag = 0
                /\ k = 1 => row.alert_risk_score \in {0, 2, 4}
                /\ row.alert_risk_score \in {0, 1, 2, 3, 4, 5}

\* A first record without any rule (score 0), a second where only the
\* worsening rule fires (score 1, no flag), a third where all three fire
\* (score 5, high).
C27_Witness ==
    /\ built
    /\ Len(rows) = 3
    /\ rows[1].alert_risk_score = 0
    /\ rows[2].rule_week_delta_worsen = 1
    /\ rows[2].rule_any_severe = 0
    /\ rows[2].rule_composite_high = 0
    /\ rows[2].alert_flag = 0
    /\ rows[3].rule_week_delta_worsen = 1
    /\ rows[3].rule_any_severe = 1
    /\ rows[3].rule_composite_high = 1
    /\ rows[3].alert_flag = 1
    /\ rows[3].alert_level = "high"

(* C28. In every weekly record a composite of 75 or more comes with at     *)
(* least one severity bucket severe and with alert_level high; and         *)
(* alert_level is high only with a composite of 65 or more and at least    *)
(* one weekly score of 75 or more.                                         *)
C28_HighCompositeIsHighAlert ==
    built =>
        \A k \in Idx(rows) :
            LET row == rows[k]
                weekly == { row.dep_week_pred_0_100, row.anx_week_pred_0_100,
                            row.ins_week_pred_0_100 }
                severities == { row.dep_severity, row.anx_severity, row.ins_severity }
                composite == row.symptom_composite_pred_0_100
            IN  /\ ~RLt(composite, R(75)) =>
                       ("severe" \in severities /\ row.alert_level = "high")
                /\ row.alert_level = "high" =>
                       /\ ~RLt(composite, R(65))
                       /\ \E x \in weekly : ~RLt(x, R(75))

\* A first record with the scores 75, 51 and 100 (composite above 75, high),
\* then one with 75, 51 and 74 (composite between 65 and 75, high as well).
C28_Witness ==
    /\ built
    /\ Len(rows) >= 2
    /\ ~RLt(rows[1].symptom_composite_pred_0_100, R(75))
    /\ rows[1].alert_level = "high"
    /\ rows[1].ins_severity = "severe"
    /\ RLt(rows[2].symptom_composite_pred_0_100, R(75))
    /\ rows[2].alert_level = "high"
    /\ rows[2].dep_week_pred_0_100 = R(75)

(* C29. Events dated in a week after the week of every existing record     *)
(* leave each existing record as it was, in all its fields, and only add   *)
(* records after them: the dashboard of all events starts with the         *)
(* dashboard of the events before that week.                               *)
\* The Monday of the last week in which events are dated
LaterWeek == WeekStart(CHOOSE d \in EventDates : \A e \in EventDates : e <= d)

BeforeLaterWeek(s) == SelectSeq(s, LAMBDA row : row.created_at < LaterWeek)

C29_LaterWeeksOnlyAppend ==
    built =>
        LET existing == UserWeeklyDashboard(BeforeLaterWeek(checkins),
                                            BeforeLaterWeek(chats),
                                            BeforeLaterWeek(assessments))
        IN  /\ Len(existing) <= Len(rows)
            /\ \A k \in 1..Len(existing) : rows[k] = existing[k]
            /\ \A k \in (Len(existing) + 1)..Len(rows) :
                 rows[k].week_start_date >= LaterWeek

\* A check-in in week 0 and, in week 1, a questionnaire with a total of 18 and
\* a chat: the record of week 0 is the one the check-in alone gives and the
\* record of week 1 follows it.
C29_Witness ==
    /\ built
    /\ Len(checkins) = 1
    /\ checkins[1].created_at < LaterWeek
    /\ Len(assessments) = 1
    /\ assessments[1].created_at = LaterWeek
    /\ assessments[1].total_score = 18
    /\ Len(chats) = 1
    /\ chats[1].created_at = LaterWeek
    /\ Len(rows) = 2
    /\ rows[1] = UserWeeklyDashboard(checkins, <<>>, <<>>)[1]
    /\ rows[2].week_start_date = LaterWeek
    /\ ~IsNone(rows[2].dep_week_delta)

(* C30. Given the same weekly dep, anx and ins scores, the dashboard of    *)
(* the service and the weekly frame of the batch scoring path hold, for    *)
(* every week, the same deltas, severity labels, rule flags,               *)
(* alert_risk_score, alert_flag, alert_level and alert_reason_codes.       *)
WeeklyScoreFields == {"dep_week_pred_0_100", "anx_week_pred_0_100", "ins_week_pred_0_100"}

AlertFields ==
    { "dep_week_delta", "anx_week_delta", "ins_week_delta",
      "dep_severity", "anx_severity", "ins_severity",
      "rule_week_delta_worsen", "rule_any_severe", "rule_composite_high",
      "alert_risk_score", "alert_flag", "alert_level", "alert_reason_codes" }

SameOn(fields, a, b) ==
    /\ Len(a) = Len(b)
    /\ \A k \in 1..Len(a) : \A f \in fields : a[k][f] = b[k][f]

\* No weekly score of the records is 25, 50 or 75
OffBoundaries(a) ==
    \A k \in 1..Len(a) : \A f \in WeeklyScoreFields : a[k][f] \notin {R(25), R(50), R(75)}

SameAlertsGivenSameScores(heuristic, batch) ==
    SameOn(WeeklyScoreFields, heuristic, batch) => SameOn(AlertFields, heuristic, batch)

C30_SameAlertsAsBatch ==
    built => SameAlertsGivenSameScores(rows, MakeWeeklyDashboard(day_scores))

\* The two paths agree on the lists in which no weekly score is 25, 50 or 75.
C30_SameAlertsOffBoundaries ==
    (built /\ OffBoundaries(rows)) =>
        SameAlertsGivenSameScores(rows, MakeWeeklyDashboard(day_scores))


====
